---- MODULE Spec2Model ----
(***************************************************************************)
(* Knowledge pipeline of Artzzx/Mars                                       *)
(* (src/filter-engine/packages/knowledge-pipeline).                        *)
(*                                                                         *)
(* Conventions.  Weights are fixed-point numbers in hundredths (75.0 is    *)
(* 7500), qualities and scores are in ten-thousandths (0.4 is 4000), so    *)
(* that round(x, 2) and round(x, 4) of the source are integer roundings.   *)
(* A consensus spread is in hundredths.                                    *)
(* An optional value (None or a value) is a sequence of length 0 or 1.     *)
(* A build slug is its rank in sorted slug order.                          *)
(***************************************************************************)
EXTENDS Integers, Sequences, FiniteSets, TLC

VARIABLES
    \* ---- IngestionPipeline.run / process_build / main -------------------
    pc,               \* position of the run
    config,           \* PipelineConfig flags: dry_run, force, only_build
    constants_exist,  \* whether game-constants.json is on disk
    planners_dir,     \* slugs with a planner file in planners/normalized
    filters_dir,      \* sorted listing of the filters directory
    build_sources,    \* result of _discover_sources: slug -> list of files
    todo,             \* builds not yet visited, in sorted slug order
    attempted,        \* slugs process_build was called with, in order
    build_slug,       \* the build being processed
    file_idx,         \* index of the next source file to ingest
    raw_sources,      \* process_build: raw_sources
    src_idx,          \* index of the next raw source to validate
    accepted_sources, \* process_build: accepted_sources
    known_checksums,  \* process_build: known_checksums
    quality_scores,   \* process_build: quality_scores
    consensus_weights,\* process_build: consensus_weights
    validated,        \* validate() calls of the run, in order
    report,           \* PipelineReport
    profiles,         \* run: profiles (slug -> BuildKnowledgeProfile)
    write_calls,      \* number of KnowledgeBaseWriter.write invocations
    kb_file,          \* the knowledge-base document on disk
    exit_code,        \* process exit status (<<>> while running)
    \* ---- a component called on its own -----------------------------------
    loaded,           \* the static data the component was constructed with
    call,             \* the arguments of the last call
    returned,         \* what the last call returned
    \* ---- KnowledgeBaseWriter.write / _atomic_write -----------------------
    fs,               \* the weights directory: path -> file content
    wpc,              \* position of the writer
    wfile,            \* index of the output file being written
    wgen,             \* number of the write() invocation
    observed          \* what a concurrent reader last read from a path

pipeVars == <<pc, config, constants_exist, planners_dir, filters_dir,
              build_sources, todo, attempted,
              build_slug, file_idx, raw_sources, src_idx, accepted_sources,
              known_checksums, quality_scores, consensus_weights, validated,
              report, profiles,
              write_calls, kb_file, exit_code>>

callVars == <<loaded, call, returned>>

writeVars == <<fs, wpc, wfile, wgen, observed>>

outsideRun == <<callVars, writeVars>>

vars == <<pipeVars, callVars, writeVars>>

\* -------------------------------------------------------------------------
\* Bounds of the model
\* -------------------------------------------------------------------------
MaxBuilds == 2       \* build slugs a sources directory may hold
MaxFilters == 2      \* filter files in the filters directory

None == <<>>
Some(x) == <<x>>

Max(a, b) == IF a >= b THEN a ELSE b
Min(a, b) == IF a <= b THEN a ELSE b

RECURSIVE SumSeq(_)
SumSeq(s) == IF s = <<>> THEN 0 ELSE Head(s) + SumSeq(Tail(s))

\* -------------------------------------------------------------------------
\* config.py
\* -------------------------------------------------------------------------
min_unique_affixes == 15
supplementary_quality_threshold == 4000
low_confidence_specificity_threshold == 5000
low_confidence_source_count == 3

\* -------------------------------------------------------------------------
\* domain/models.py, ingestion/
\* -------------------------------------------------------------------------
Phases == {"starter", "endgame", "aspirational"}

\* _ALL_PHASES, and the key order of phases_out.
PhaseOrder == <<"starter", "endgame", "aspirational">>

StrictnessLevels == {"uber_strict", "very_strict", "strict", "relaxed", "show_all"}

\* The fields of the RawSource dataclass.
RawSourceFields ==
    {"source_id", "source_type", "build_slug", "mastery", "damage_type",
     "phases", "checksum", "covered_masteries", "metadata"}

\* Keyword arguments PlannerIngester.ingest passes to RawSource(...).
PlannerIngestKwargs ==
    {"source_id", "source_type", "build_slug", "mastery", "damage_types",
     "archetype", "phases", "checksum", "covered_masteries", "metadata"}

\* Keyword arguments FilterIngester.ingest passes to RawSource(...).
FilterIngestKwargs ==
    {"source_id", "source_type", "build_slug", "mastery", "damage_type",
     "phases", "checksum", "covered_masteries", "metadata"}

\* A dataclass constructor raises TypeError on an unexpected or a missing
\* keyword argument.
ConstructorAccepts(kwargs) == kwargs = RawSourceFields

\* Attribute access on a RawSource raises AttributeError for a non-field.
HasAttr(name) == name \in RawSourceFields

\* Affix IDs of the catalog (AffixResolver.known_ids).
KnownIds == 1..16

\* Contents a filter file may have: what FilterIngester reads from it.
\*   malformed : not well-formed XML (ET.ParseError -> ValueError)
\*   few       : 14 known affix IDs in one strict block
\*   goodA/B   : 15 and 16 known affix IDs
FilterContents == {"malformed", "few", "goodA", "goodB"}

FilterIds(content) ==
    CASE content = "few" -> 1..14
      [] content = "goodA" -> 1..15
      [] content = "goodB" -> 1..16
      [] OTHER -> {}

\* sorted(ids): the elements of a set of numbers in ascending order.
RECURSIVE SortedSeq(_)
SortedSeq(S) ==
    IF S = {} THEN <<>>
    ELSE LET m == CHOOSE x \in S : \A y \in S : x <= y
         IN  <<m>> \o SortedSeq(S \ {m})

\* A phase of a planner source has no "strictness_affixes" key.
NoStrictness == [l \in {} |-> <<>>]

\* The elements of a sequence.
Range(s) == {s[i] : i \in 1..Len(s)}

\* hashlib.sha256 over the file text: equal exactly for equal contents.
Checksum(content) == content

\* FilterIngester.ingest: the same strictness map in all three phases.
FilterPhases(ids) ==
    [p \in Phases |->
        [affixes |-> <<>>,
         strictness_affixes |->
            [l \in StrictnessLevels |->
                IF l = "strict" THEN SortedSeq(ids) ELSE <<>>]]]

\* The result of an ingest call: ok, or the exception it raised.
FilterIngest(slug, k, content) ==
    IF content = "malformed"
    THEN [ok |-> FALSE, error |-> "ValueError", raw |-> None]
    ELSE IF ~ConstructorAccepts(FilterIngestKwargs)
    THEN [ok |-> FALSE, error |-> "TypeError", raw |-> None]
    ELSE [ok |-> TRUE, error |-> "",
          raw |-> Some([source_id |-> <<slug, k>>,
                        source_type |-> "filter",
                        mastery |-> "shaman",
                        damage_type |-> "cold",
                        phases |-> FilterPhases(FilterIds(content)),
                        checksum |-> Checksum(content),
                        covered_masteries |-> <<"shaman">>])]

\* PlannerIngester.ingest of a well-formed planner file: the parse
\* succeeds and the RawSource constructor is called with damage_types and
\* archetype.
PlannerIngest(slug, k, content) ==
    IF content = "malformed"
    THEN [ok |-> FALSE, error |-> "ValueError", raw |-> None]
    ELSE IF ~ConstructorAccepts(PlannerIngestKwargs)
    THEN [ok |-> FALSE, error |-> "TypeError", raw |-> None]
    ELSE [ok |-> TRUE, error |-> "",
          raw |-> Some([source_id |-> <<slug, k>>,
                        source_type |-> "planner",
                        mastery |-> "shaman",
                        damage_type |-> "cold",
                        phases |-> [p \in Phases |->
                                      [affixes |-> [i \in 1..16 |->
                                                      [affix_id |-> i, tier |-> 5]],
                                       strictness_affixes |-> NoStrictness]],
                        checksum |-> Checksum(content),
                        covered_masteries |-> <<"shaman">>])]

\* _ingest_file: dispatch on the file suffix.
IngestFileResult(slug, k, file) ==
    IF file.suffix = "json" THEN PlannerIngest(slug, k, file.content)
    ELSE FilterIngest(slug, k, file.content)

\* -------------------------------------------------------------------------
\* validation/validator.py
\* -------------------------------------------------------------------------
\* N / D rounded to the nearest integer (round(x, n) of a fixed-point x).
RoundDiv(n, d) == (n \div d) + (IF 2 * (n % d) >= d THEN 1 ELSE 0)

\* _extract_all_affix_ids
ExtractAllAffixIds(source) ==
    UNION {{e.affix_id : e \in Range(source.phases[p].affixes)}
             \cup UNION {Range(source.phases[p].strictness_affixes[l]) :
                           l \in DOMAIN source.phases[p].strictness_affixes} :
           p \in DOMAIN source.phases}

HasPhaseDifferentiationOnePhase(source) ==
    IF source.source_type = "filter"
    THEN \E p \in DOMAIN source.phases :
            DOMAIN source.phases[p].strictness_affixes # {}
    ELSE Cardinality({p \in DOMAIN source.phases :
                        source.phases[p].affixes # <<>>}) >= 1

\* _has_phase_differentiation
HasPhaseDifferentiation(source) ==
    IF source.source_type = "filter"
    THEN \E p \in DOMAIN source.phases :
            DOMAIN source.phases[p].strictness_affixes # {}
    ELSE Cardinality({p \in DOMAIN source.phases :
                        source.phases[p].affixes # <<>>}) >= 2

\* SourceValidator._compute_phase_coverage: phases holding data (0..3).
PhasesWithData(source) ==
    Cardinality({p \in DOMAIN source.phases :
        \/ source.phases[p].affixes # <<>>
        \/ \E l \in DOMAIN source.phases[p].strictness_affixes :
              source.phases[p].strictness_affixes[l] # <<>>})

\* SourceValidator._compute_specificity as a fraction <<num, den>>.
ComputeSpecificity(covered_masteries) ==
    IF Len(covered_masteries) = 1 THEN <<1, 1>>
    ELSE IF covered_masteries = <<>> THEN <<1, 10>>
    ELSE <<1, Len(covered_masteries)>>

\* A score whose overall is the specificity dimension alone.
QualityScoreBySpecificity(source, known_ids) ==
    LET sp == ComputeSpecificity(source.covered_masteries)
        an == Cardinality(ExtractAllAffixIds(source) \cap known_ids)
        ad == Cardinality(ExtractAllAffixIds(source))
    IN  [source_id |-> source.source_id,
         specificity |-> RoundDiv(10000 * sp[1], sp[2]),
         affix_coverage |-> RoundDiv(10000 * an, ad),
         phase_coverage |-> RoundDiv(10000 * Min(3, PhasesWithData(source)), 3),
         recency |-> 10000,
         consensus_alignment |-> 10000,
         overall |-> RoundDiv(10000 * sp[1], sp[2]),
         is_supplementary |-> 10000 * sp[1] < supplementary_quality_threshold * sp[2]]

\* Soft scoring of validate, with the default _QUALITY_WEIGHTS
\* (0.30, 0.25, 0.20, 0.15, 0.10; recency and consensus_alignment are 1.0).
\* overall = N / D in ten-thousandths.
QualityScore(source, known_ids) ==
    LET all_ids == ExtractAllAffixIds(source)
        sp == ComputeSpecificity(source.covered_masteries)
        an == Cardinality(all_ids \cap known_ids)
        ad == Cardinality(all_ids)
        k  == Min(3, PhasesWithData(source))
        D  == sp[2] * ad * 3
        N  == 3000 * sp[1] * ad * 3 + 2500 * an * sp[2] * 3
              + 2000 * k * sp[2] * ad + 1500 * D + 1000 * D
    IN  [source_id |-> source.source_id,
         specificity |-> RoundDiv(10000 * sp[1], sp[2]),
         affix_coverage |-> RoundDiv(10000 * an, ad),
         phase_coverage |-> RoundDiv(10000 * k, 3),
         recency |-> 10000,
         consensus_alignment |-> 10000,
         overall |-> RoundDiv(N, D),
         is_supplementary |-> N < supplementary_quality_threshold * D]

Reason(kind, count) == [kind |-> kind, count |-> count]

IsDuplicateNever(checksum, checksums) == FALSE

\* validate, hard rejection 4: the checksum was seen before.
IsDuplicate(checksum, checksums) == checksum \in checksums

\* SourceValidator.validate: (accepted, quality score or None, reason).
Validate(source, known_ids, checksums) ==
    LET all_ids == ExtractAllAffixIds(source)
        unique_count == Cardinality(all_ids)
        unknown_ids == all_ids \ known_ids
    IN  IF unique_count < min_unique_affixes
        THEN [accepted |-> FALSE, quality |-> None,
              reason |-> Reason("too_few", unique_count)]
        ELSE IF unknown_ids # {}
        THEN [accepted |-> FALSE, quality |-> None,
              reason |-> Reason("unknown_ids", Cardinality(unknown_ids))]
        ELSE IF ~HasPhaseDifferentiation(source)
        THEN [accepted |-> FALSE, quality |-> None,
              reason |-> Reason("no_phase_differentiation", 0)]
        ELSE IF IsDuplicate(source.checksum, checksums)
        THEN [accepted |-> FALSE, quality |-> None,
              reason |-> Reason("duplicate", 0)]
        ELSE [accepted |-> TRUE,
              quality |-> Some(QualityScore(source, known_ids)),
              reason |-> Reason("", 0)]

\* -------------------------------------------------------------------------
\* Python dicts keep insertion order: a dict is a sequence of [k, v]
\* records with distinct keys.
\* -------------------------------------------------------------------------
DictKeys(d) == {d[i].k : i \in 1..Len(d)}

DictGet(d, key, default) ==
    IF \E i \in 1..Len(d) : d[i].k = key
    THEN d[CHOOSE i \in 1..Len(d) : d[i].k = key].v
    ELSE default

\* d[key] = value: replace in place, or append a new key.
DictSet(d, key, value) ==
    IF \E i \in 1..Len(d) : d[i].k = key
    THEN [i \in 1..Len(d) |-> IF d[i].k = key THEN [k |-> key, v |-> value] ELSE d[i]]
    ELSE Append(d, [k |-> key, v |-> value])

\* -------------------------------------------------------------------------
\* graph/affix_graph.py
\* -------------------------------------------------------------------------
synergy_trigger_weight == 6000
synergy_boost_per_strength == 15

\* The index of the first occurrence of token sep in a token sequence, or 0.
FirstIndex(tokens, sep) ==
    IF \E i \in 1..Len(tokens) : tokens[i] = sep
    THEN CHOOSE i \in 1..Len(tokens) :
            tokens[i] = sep /\ \A j \in 1..(i - 1) : tokens[j] # sep
    ELSE 0

\* condition.split(sep): the pieces between the occurrences of sep.
RECURSIVE SplitOn(_, _)
SplitOn(tokens, sep) ==
    LET i == FirstIndex(tokens, sep)
    IN  IF i = 0 THEN <<tokens>>
        ELSE <<SubSeq(tokens, 1, i - 1)>>
               \o SplitOn(SubSeq(tokens, i + 1, Len(tokens)), sep)

\* key + "s", for the keys a build context may hold as lists.
Plural(key) ==
    CASE key = <<"damage_type">> -> <<"damage_types">>
      [] key = <<"mastery">> -> <<"masterys">>
      [] OTHER -> key \o <<"s">>

\* A condition evaluator for which every condition is satisfied.
EvaluateConditionSatisfied(condition, build_context) == TRUE

\* _evaluate_condition.  A condition is None or a sequence of the tokens of
\* the condition string; a context maps a key (a token sequence) to the
\* token sequence of its value.
RECURSIVE EvaluateCondition(_, _)
EvaluateCondition(condition, build_context) ==
    IF condition = None THEN TRUE
    ELSE LET c == condition[1] IN
    IF FirstIndex(c, "&&") # 0
    THEN \A i \in 1..Len(SplitOn(c, "&&")) :
            EvaluateCondition(Some(SplitOn(c, "&&")[i]), build_context)
    ELSE IF FirstIndex(c, "||") # 0
    THEN \E i \in 1..Len(SplitOn(c, "||")) :
            EvaluateCondition(Some(SplitOn(c, "||")[i]), build_context)
    ELSE IF FirstIndex(c, "==") # 0
    THEN LET i == FirstIndex(c, "==")
             key0 == SubSeq(c, 1, i - 1)
             expected == SubSeq(c, i + 1, Len(c))
             key == IF key0 \notin DOMAIN build_context
                       /\ Plural(key0) \in DOMAIN build_context
                    THEN Plural(key0) ELSE key0
             actual == IF key \in DOMAIN build_context
                       THEN build_context[key] ELSE <<>>
         IN  actual = expected
    ELSE TRUE

\* AffixRelationshipGraph.__init__: nx.DiGraph keeps one edge per
\* (from, to); a later edge of the list with the same ends replaces the
\* attributes and keeps the position of the first.
RECURSIVE GraphFromEdges(_)
GraphFromEdges(edges) ==
    IF edges = <<>> THEN <<>>
    ELSE LET g == GraphFromEdges(SubSeq(edges, 1, Len(edges) - 1))
             e == edges[Len(edges)]
         IN  IF \E i \in 1..Len(g) : g[i].from = e.from /\ g[i].to = e.to
             THEN [i \in 1..Len(g) |->
                     IF g[i].from = e.from /\ g[i].to = e.to THEN e ELSE g[i]]
             ELSE Append(g, e)

HasNode(graph, affix_id) ==
    \E i \in 1..Len(graph) : graph[i].from = affix_id \/ graph[i].to = affix_id

\* graph.out_edges(affix_id, data=True), in insertion order.
OutEdges(graph, affix_id) ==
    SelectSeq(graph, LAMBDA e : e.from = affix_id)

\* Pass 1, inner loop: the SYNERGY edges of one affix boost their targets.
RECURSIVE BoostNeighbors(_, _, _)
BoostNeighbors(result, out_edges, boost_per_strength) ==
    IF out_edges = <<>> THEN result
    ELSE LET e == Head(out_edges)
             next == IF e.type # "SYNERGY" THEN result
                     ELSE DictSet(result, e.to,
                            Min(10000, DictGet(result, e.to, 0)
                                         + e.strength * boost_per_strength))
         IN  BoostNeighbors(next, Tail(out_edges), boost_per_strength)

\* Pass 1 with a trigger that an equal weight reaches.
RECURSIVE SynergyPassInclusive(_, _, _, _, _)
SynergyPassInclusive(result, items, graph, trigger, boost_per_strength) ==
    IF items = <<>> THEN result
    ELSE LET it == Head(items)
             next == IF it.v < trigger \/ ~HasNode(graph, it.k) THEN result
                     ELSE BoostNeighbors(result, OutEdges(graph, it.k),
                                         boost_per_strength)
         IN  SynergyPassInclusive(next, Tail(items), graph, trigger, boost_per_strength)

\* Pass 1: iterates the items of the INPUT weights, updates result.
RECURSIVE SynergyPass(_, _, _, _, _)
SynergyPass(result, items, graph, trigger, boost_per_strength) ==
    IF items = <<>> THEN result
    ELSE LET it == Head(items)
             next == IF it.v <= trigger \/ ~HasNode(graph, it.k) THEN result
                     ELSE BoostNeighbors(result, OutEdges(graph, it.k),
                                         boost_per_strength)
         IN  SynergyPass(next, Tail(items), graph, trigger, boost_per_strength)

\* Pass 2, for one affix: does an outgoing PREREQUISITE edge fail?
PrerequisiteUnmet(graph, affix_id, build_context) ==
    /\ HasNode(graph, affix_id)
    /\ \E i \in 1..Len(graph) :
          /\ graph[i].from = affix_id
          /\ graph[i].type = "PREREQUISITE"
          /\ ~EvaluateCondition(graph[i].condition, build_context)

PrerequisitePass(result, graph, build_context) ==
    [i \in 1..Len(result) |->
        IF PrerequisiteUnmet(graph, result[i].k, build_context)
        THEN [k |-> result[i].k, v |-> 0] ELSE result[i]]

\* AffixRelationshipGraph.propagate_weights
PropagateWeights(graph, weights, build_context, trigger, boost_per_strength) ==
    PrerequisitePass(
        SynergyPass(weights, weights, graph, trigger, boost_per_strength),
        graph, build_context)

\* -------------------------------------------------------------------------
\* inheritance/nodes.py
\* -------------------------------------------------------------------------
PRIMARY_AFFIX_WEIGHT == 7500
SYNERGY_AFFIX_WEIGHT == 5500
MASTERY_SIGNATURE_BOOST == 1000

\* PipelineConfig.universal_baseline_weights, in dict order.
universal_baseline_weights ==
    << [k |-> "added_health", v |-> 7000],
       [k |-> "added_vitality", v |-> 6500],
       [k |-> "movement_speed", v |-> 6000] >>

\* A merge in which the layer's weight replaces the existing one.
RECURSIVE MergeIntoOverwrite(_, _)
MergeIntoOverwrite(layer, weights) ==
    IF layer = <<>> THEN weights
    ELSE MergeIntoOverwrite(Tail(layer), DictSet(weights, Head(layer).k, Head(layer).v))

\* InheritanceNode.merge_into: max(existing, layer weight) per affix.
RECURSIVE MergeInto(_, _)
MergeInto(layer, weights) ==
    IF layer = <<>> THEN weights
    ELSE MergeInto(Tail(layer),
            DictSet(weights, Head(layer).k,
                    Max(DictGet(weights, Head(layer).k, 0), Head(layer).v)))

\* UniversalBaseline.resolve
RECURSIVE UniversalBaselineResolve(_, _)
UniversalBaselineResolve(name_to_id, baseline_weights) ==
    IF baseline_weights = <<>> THEN <<>>
    ELSE LET rest == UniversalBaselineResolve(name_to_id,
                        SubSeq(baseline_weights, 1, Len(baseline_weights) - 1))
             last == baseline_weights[Len(baseline_weights)]
         IN  IF last.k \in DictKeys(name_to_id)
             THEN DictSet(rest, DictGet(name_to_id, last.k, 0), last.v)
             ELSE rest

\* result[affix_id] = weight for every id of a list, in order.
RECURSIVE SetAll(_, _, _)
SetAll(result, ids, weight) ==
    IF ids = <<>> THEN result
    ELSE SetAll(DictSet(result, Head(ids), weight), Tail(ids), weight)

\* DamageTypeProfile.resolve
DamageTypeProfileResolve(profile) ==
    LET primary == SetAll(<<>>, profile.primaryAffixIds, PRIMARY_AFFIX_WEIGHT)
    IN  SetAll(primary,
               SelectSeq(profile.synergyAffixIds,
                         LAMBDA a : a \notin DictKeys(primary)),
               SYNERGY_AFFIX_WEIGHT)

\* ClassProfile.resolve
ClassProfileResolve == <<>>

\* MasteryProfile.resolve
MasteryProfileResolve(primary_ids) ==
    SetAll(<<>>, primary_ids, PRIMARY_AFFIX_WEIGHT + MASTERY_SIGNATURE_BOOST)

\* -------------------------------------------------------------------------
\* inheritance/resolver.py
\* -------------------------------------------------------------------------
LAYER_SPECIFICITY ==
    [baseline |-> 0, damage_type |-> 2000, class |-> 4000,
     mastery |-> 7000, specific |-> 10000]

\* _weight_to_category
WeightToCategory(weight) ==
    IF weight >= 7500 THEN "essential"
    ELSE IF weight >= 5500 THEN "strong"
    ELSE IF weight >= 3500 THEN "useful"
    ELSE "filler"

\* Which of the keywords of _build_name_to_id_index a lower-cased affix
\* name contains.
NameKeywords(name) ==
    CASE name = "Added Health" -> {"added health", "health"}
      [] name = "Health Regen" -> {"health"}
      [] name = "Added Vitality" -> {"vitality", "added vitality"}
      [] name = "Movement Speed" -> {"movement speed"}
      [] OTHER -> {}

keyword_map ==
    << [k |-> "added_health", v |-> {"added health", "health"}],
       [k |-> "added_vitality", v |-> {"vitality", "added vitality"}],
       [k |-> "movement_speed", v |-> {"movement speed", "move speed"}] >>

\* InheritanceResolver._build_name_to_id_index: per key, the first affix of
\* the index whose name contains one of the key's keywords.
RECURSIVE BuildNameToIdIndex(_, _)
BuildNameToIdIndex(affix_index, keys) ==
    IF keys = <<>> THEN <<>>
    ELSE LET rest == BuildNameToIdIndex(affix_index, SubSeq(keys, 1, Len(keys) - 1))
             key == keys[Len(keys)]
             hits == SelectSeq(affix_index,
                        LAMBDA a : NameKeywords(a.name) \cap key.v # {})
         IN  IF hits = <<>> THEN rest
             ELSE DictSet(rest, key.k, Head(hits).affix_id)

\* A stable sort by descending weight (sorted(..., reverse=True)).
RECURSIVE InsertDesc(_, _)
InsertDesc(sorted, x) ==
    IF sorted = <<>> THEN <<x>>
    ELSE IF Head(sorted).weight >= x.weight
         THEN <<Head(sorted)>> \o InsertDesc(Tail(sorted), x)
         ELSE <<x>> \o sorted

RECURSIVE SortDesc(_)
SortDesc(s) ==
    IF s = <<>> THEN <<>>
    ELSE InsertDesc(SortDesc(SubSeq(s, 1, Len(s) - 1)), s[Len(s)])

\* Layer 4: consensus weights of all phases flattened to affix -> max.
\* phase_lists is the sequence of the dict's values.
RECURSIVE ConsensusFlat(_, _)
ConsensusFlat(flat, cws) ==
    IF cws = <<>> THEN flat
    ELSE ConsensusFlat(
            DictSet(flat, Head(cws).affix_id,
                    Max(DictGet(flat, Head(cws).affix_id, 0), Head(cws).weight)),
            Tail(cws))

\* All consensus weights of a by-phase dict, in the dict's order.
RECURSIVE ConcatValues(_)
ConcatValues(d) ==
    IF d = <<>> THEN <<>> ELSE Head(d).v \o ConcatValues(Tail(d))

\* A dict is truthy when it has a key.
Truthy(consensus_weights_by_phase) ==
    /\ consensus_weights_by_phase # None
    /\ consensus_weights_by_phase[1] # <<>>

\* A phase list in the order of the consensus data.
ConsensusEntriesUnsorted(cw_list, threshold_ids) ==
    LET kept == SelectSeq(cw_list, LAMBDA cw : cw.affix_id \notin threshold_ids)
    IN  [i \in 1..Len(kept) |->
           [id |-> kept[i].affix_id,
            weight |-> kept[i].weight,
            category |-> kept[i].category,
            min_tier |-> IF kept[i].min_tier = None \/ kept[i].min_tier = Some(0)
                         THEN 1 ELSE kept[i].min_tier[1],
            consensus_spread |-> kept[i].consensus_spread,
            confidence |-> kept[i].confidence]]

\* resolve, output shaping with consensus data: one phase's list, built
\* from that phase's ConsensusWeights.
ConsensusEntries(cw_list, threshold_ids) ==
    LET kept == SelectSeq(SortDesc(cw_list),
                          LAMBDA cw : cw.affix_id \notin threshold_ids)
    IN  [i \in 1..Len(kept) |->
           [id |-> kept[i].affix_id,
            weight |-> kept[i].weight,
            category |-> kept[i].category,
            min_tier |-> IF kept[i].min_tier = None \/ kept[i].min_tier = Some(0)
                         THEN 1 ELSE kept[i].min_tier[1],
            consensus_spread |-> kept[i].consensus_spread,
            confidence |-> kept[i].confidence]]

\* resolve, pure inheritance: the list every phase receives.
InheritedEntries(weights) ==
    LET positive == SelectSeq(weights, LAMBDA it : it.v > 0)
        sorted_affixes ==
            SortDesc([i \in 1..Len(positive) |->
                        [id |-> positive[i].k, weight |-> positive[i].v]])
    IN  [i \in 1..Len(sorted_affixes) |->
           [id |-> sorted_affixes[i].id,
            weight |-> sorted_affixes[i].weight,
            category |-> WeightToCategory(sorted_affixes[i].weight),
            min_tier |-> 1,
            consensus_spread |-> 0,
            confidence |-> 5000]]

ConfidenceLabelBySpecificity(specificity_score, source_count) ==
    IF specificity_score >= LAYER_SPECIFICITY["mastery"] THEN "medium" ELSE "low"

\* A confidence string that depends on the source count alone.
ConfidenceLabelBySources(specificity_score, source_count) ==
    IF source_count >= 3 THEN "high"
    ELSE IF source_count >= 2 THEN "medium"
    ELSE "low"

\* resolve, the confidence string.
ConfidenceLabel(specificity_score, source_count) ==
    IF source_count = 0 THEN "low"
    ELSE IF specificity_score >= LAYER_SPECIFICITY["specific"]
            /\ source_count >= 3 THEN "high"
    ELSE IF source_count >= 2 THEN "medium"
    ELSE "low"

\* One merge_into of resolve: the layer's name, the map its resolve()
\* returns, and the running map before and after.
Merged(layer, resolved, before) ==
    [layer |-> layer, resolved |-> resolved, before |-> before,
     after |-> MergeInto(resolved, before)]

\* One layer of resolve: when the layer applies, it is merged into the
\* running map and the merge is recorded.
MergeLayer(acc, applies, layer, resolved) ==
    IF applies
    THEN [weights |-> MergeInto(resolved, acc.weights),
          merges |-> Append(acc.merges, Merged(layer, resolved, acc.weights))]
    ELSE acc

LayersResult(base_class, baseline, acc) ==
    [base_class |-> base_class, baseline |-> baseline,
     merges |-> acc.merges, weights |-> acc.weights]

\* InheritanceResolver.resolve, layers 0 to 4: the merges performed, in
\* order, and the running map they end with.  gc holds the parsed game
\* constants, the name index and the graph of the resolver.
ResolveLayers(gc, mastery, damage_type, consensus_weights_by_phase) ==
    LET base_class == DictGet(gc.mastery_to_class, mastery, "")
        w0 == UniversalBaselineResolve(gc.name_to_id, universal_baseline_weights)
        has_dt == damage_type # "" /\ damage_type \in DictKeys(gc.damage_type_profiles)
        a1 == MergeLayer([weights |-> w0, merges |-> <<>>], has_dt, "damage_type",
                         DamageTypeProfileResolve(
                             DictGet(gc.damage_type_profiles, damage_type, <<>>)))
        a2 == MergeLayer(a1, base_class # "" /\ base_class \in gc.class_hierarchy,
                         "class", ClassProfileResolve)
        primary_ids == IF has_dt
                       THEN DictGet(gc.damage_type_profiles, damage_type, <<>>).primaryAffixIds
                       ELSE <<>>
        mastery_weights == MasteryProfileResolve(primary_ids)
        a3 == MergeLayer(a2, mastery_weights # <<>>, "mastery", mastery_weights)
        consensus_flat == IF Truthy(consensus_weights_by_phase)
                          THEN ConsensusFlat(<<>>, ConcatValues(consensus_weights_by_phase[1]))
                          ELSE <<>>
        a4 == MergeLayer(a3, consensus_flat # <<>>, "specific", consensus_flat)
    IN  LayersResult(base_class, w0, a4)

\* InheritanceResolver.resolve, layer 5: the merged weights after graph
\* propagation, before the threshold affixes are filtered out.
PropagateLayers(gc, layers, mastery, damage_type) ==
    PropagateWeights(gc.graph, layers.weights,
                     (<<"mastery">> :> <<mastery>>) @@ (<<"damage_type">> :> <<damage_type>>)
                       @@ (<<"base_class">> :> <<layers.base_class>>),
                     synergy_trigger_weight, synergy_boost_per_strength)

ResolvePropagated(gc, mastery, damage_type, consensus_weights_by_phase) ==
    PropagateLayers(gc, ResolveLayers(gc, mastery, damage_type, consensus_weights_by_phase),
                    mastery, damage_type)

\* The name of the first layer merged.
DataSourceLayerFirst(merges) ==
    IF merges = <<>> THEN "baseline" ELSE merges[1].layer

\* The name of the last layer merged.
DataSourceLayer(merges) ==
    IF merges = <<>> THEN "baseline" ELSE merges[Len(merges)].layer

\* InheritanceResolver.resolve, from layer 5 on.
ResolveFrom(gc, layers, mastery, damage_type, build_slug_, consensus_weights_by_phase, source_count) ==
    LET has_consensus == Truthy(consensus_weights_by_phase)
        data_source_layer == DataSourceLayer(layers.merges)
        specificity_score == LAYER_SPECIFICITY[data_source_layer]
        w5 == PropagateLayers(gc, layers, mastery, damage_type)
        w6 == SelectSeq(w5, LAMBDA it : it.k \notin gc.threshold_affix_ids)
        phases_out ==
            [p \in Phases |->
               IF has_consensus
               THEN ConsensusEntries(
                        DictGet(consensus_weights_by_phase[1], p, <<>>),
                        gc.threshold_affix_ids)
               ELSE InheritedEntries(w6)]
        confidence_str == ConfidenceLabel(specificity_score, source_count)
    IN  [build_slug |-> build_slug_,
         mastery |-> mastery,
         damage_type |-> damage_type,
         specificity_score |-> specificity_score,
         source_count |-> source_count,
         confidence |-> confidence_str,
         data_source_layer |-> data_source_layer,
         phases |-> phases_out]

\* InheritanceResolver.resolve
Resolve(gc, mastery, damage_type, build_slug_, consensus_weights_by_phase, source_count) ==
    ResolveFrom(gc, ResolveLayers(gc, mastery, damage_type, consensus_weights_by_phase),
                mastery, damage_type, build_slug_, consensus_weights_by_phase, source_count)

\* -------------------------------------------------------------------------
\* consensus/engine.py
\* -------------------------------------------------------------------------
min_sources_for_override == 3
outlier_std_dev_threshold == 2

\* _weighted_average as a fraction <<num, den>> (den > 0), or <<0, 1>> for
\* no weights.
WeightedAverage(weights, qualities) ==
    LET total_quality == SumSeq(qualities)
    IN  IF total_quality = 0
        THEN IF weights = <<>> THEN <<0, 1>> ELSE <<SumSeq(weights), Len(weights)>>
        ELSE <<SumSeq([i \in 1..Min(Len(weights), Len(qualities)) |->
                         weights[i] * qualities[i]]),
               total_quality>>

\* n * w - sum(weights), in quarter units: the deviation of w from the mean
\* times n.  (Extracted weights are multiples of 0.25.)
Deviation(w, weights) == (Len(weights) * w - SumSeq(weights)) \div 25

SumSquares(weights) ==
    SumSeq([i \in 1..Len(weights) |-> Deviation(weights[i], weights) ^ 2])

\* abs(w - mean) > std_threshold * statistics.stdev(weights), in exact
\* arithmetic: both sides squared and multiplied by n^2 * (n - 1).
IsOutlier(w, weights) ==
    (Deviation(w, weights) ^ 2) * (Len(weights) - 1)
        > outlier_std_dev_threshold * outlier_std_dev_threshold * SumSquares(weights)

\* min(1.0, stdev / 50.0) in hundredths: the r with
\* r - 1/2 <= 2 * stdev < r + 1/2, capped at 100.
NormalizedSpread(weights) ==
    LET n == Len(weights)
        q == SumSquares(weights)
        d == n * n * (n - 1)
    IN  IF q >= 199 * 199 * d THEN 100
        ELSE CHOOSE r \in 0..99 :
                /\ (r = 0 \/ (2 * r - 1) * (2 * r - 1) * d <= q)
                /\ q < (2 * r + 1) * (2 * r + 1) * d

\* _compute_confidence (quality_avg in ten-thousandths as a fraction,
\* spread in hundredths), rounded to four decimals.
ComputeConfidence(spread, source_count, quality_sum) ==
    LET source_factor == Min(10000, 2000 * source_count)
        spread_factor == Max(0, 10000 - 100 * spread)
        \* 0.4 * quality_avg + 0.4 * spread_factor + 0.2 * source_factor
        num == 4 * quality_sum + (4 * spread_factor + 2 * source_factor) * source_count
    IN  Min(10000, RoundDiv(num, 10 * source_count))

\* The observations the outlier loop visits:
\*   zip(raw_weights, raw_qualities, *zip(*entries[0:1]))
\* zip stops at its shortest argument, and each zip(*entries[0:1]) argument
\* has as many elements as entries[0:1].
OutlierLoopItems(entries) ==
    SubSeq(entries, 1, Min(Len(entries), Len(SubSeq(entries, 1, 1))))

\* The most common category; the first one in insertion order on a tie.
CategoryVote(categories) ==
    LET votes(c) == Cardinality({i \in 1..Len(categories) : categories[i] = c})
        best == CHOOSE i \in 1..Len(categories) :
                   /\ \A j \in 1..Len(categories) : votes(categories[j]) <= votes(categories[i])
                   /\ \A j \in 1..(i - 1) : votes(categories[j]) < votes(categories[i])
    IN  categories[best]

\* ConsensusEngine.merge, the body of the loop over the groups.
\* entries: the group's (weight, quality, min_tier, category, source_id).
MergeGroup(affix_id, phase, entries, baseline_weights) ==
    LET raw_weights == [i \in 1..Len(entries) |-> entries[i].weight]
        raw_qualities == [i \in 1..Len(entries) |-> entries[i].quality]
        min_tiers == SelectSeq(entries, LAMBDA e : e.min_tier # None)
        categories == [i \in 1..Len(entries) |-> entries[i].category]
        detect == Len(raw_weights) >= 3
        visited == OutlierLoopItems(entries)
        dropped(e) == /\ IsOutlier(e.weight, raw_weights)
                      /\ e.quality < supplementary_quality_threshold
        kept == IF detect THEN SelectSeq(visited, LAMBDA e : ~dropped(e)) ELSE entries
        outlier_kept ==
            /\ detect
            /\ \E i \in 1..Len(visited) :
                  /\ IsOutlier(visited[i].weight, raw_weights)
                  /\ visited[i].quality >= supplementary_quality_threshold
        survivors == IF kept = <<>> THEN entries ELSE kept
        filtered_weights == [i \in 1..Len(survivors) |-> survivors[i].weight]
        filtered_qualities == [i \in 1..Len(survivors) |-> survivors[i].quality]
        avg == WeightedAverage(filtered_weights, filtered_qualities)
        source_count == Len(filtered_weights)
        baseline == IF baseline_weights = None THEN 0
                    ELSE DictGet(baseline_weights[1], affix_id, 0)
        clamp == /\ source_count < min_sources_for_override
                 /\ baseline_weights # None
                 /\ baseline > 0
        consensus_w == IF clamp
                       THEN RoundDiv(avg[1] + baseline * avg[2], 2 * avg[2])
                       ELSE RoundDiv(avg[1], avg[2])
        spread0 == IF Len(filtered_weights) >= 2
                   THEN NormalizedSpread(filtered_weights) ELSE 0
        spread == IF outlier_kept THEN Min(100, spread0 + 10) ELSE spread0
        tiers == {min_tiers[i].min_tier[1] : i \in 1..Len(min_tiers)}
    IN  [affix_id |-> affix_id,
         phase |-> phase,
         weight |-> consensus_w,
         category |-> CategoryVote(categories),
         min_tier |-> IF tiers = {} THEN None
                      ELSE Some(CHOOSE t \in tiers : \A u \in tiers : t <= u),
         consensus_spread |-> spread,
         confidence |-> ComputeConfidence(spread, source_count,
                                          SumSeq(filtered_qualities)),
         source_count |-> source_count]

\* The elements of a sequence in order of first appearance (the keys of
\* a dict filled in that order).
RECURSIVE FirstSeen(_)
FirstSeen(ids) ==
    IF Len(ids) <= 1 THEN ids
    ELSE LET left == FirstSeen(SubSeq(ids, 1, Len(ids) \div 2))
             right == FirstSeen(SubSeq(ids, Len(ids) \div 2 + 1, Len(ids)))
         IN  left \o SelectSeq(right, LAMBDA x : \A i \in 1..Len(left) : left[i] # x)

\* The (affix_id, phase) keys of the groups, in order of first appearance.
GroupKeys(weights) ==
    FirstSeen([i \in 1..Len(weights) |-> <<weights[i].affix_id, weights[i].phase>>])

\* ConsensusEngine.merge
Merge(weights, quality_scores_, baseline_weights) ==
    LET keys == GroupKeys(weights)
        group(key) ==
            LET members == SelectSeq(weights,
                              LAMBDA ew : ew.affix_id = key[1] /\ ew.phase = key[2])
            IN  [i \in 1..Len(members) |->
                   [weight |-> members[i].weight,
                    quality |-> DictGet(quality_scores_, members[i].source_id, 5000),
                    min_tier |-> members[i].min_tier,
                    category |-> members[i].category,
                    source_id |-> members[i].source_id]]
    IN  [i \in 1..Len(keys) |->
           MergeGroup(keys[i][1], keys[i][2], group(keys[i]), baseline_weights)]

\* -------------------------------------------------------------------------
\* extraction/planner.py, extraction/filter_extractor.py
\* -------------------------------------------------------------------------
\* PipelineConfig.tier_midpoint
TierMidpoint(tier) ==
    IF tier = 7 THEN 9500
    ELSE IF tier \in {5, 6} THEN 7500
    ELSE IF tier \in {3, 4} THEN 5000
    ELSE 2500

\* PipelineConfig.tier_to_category
TierToCategory(tier) ==
    IF tier >= 7 THEN "essential"
    ELSE IF tier >= 5 THEN "strong"
    ELSE IF tier >= 3 THEN "useful"
    ELSE "filler"

\* _determine_phase_pattern
DeterminePhasePattern(phases_present) ==
    IF {"starter", "endgame", "aspirational"} \subseteq phases_present THEN "all_phases"
    ELSE IF phases_present = {"aspirational"} THEN "bis_only"
    ELSE IF phases_present = {"starter"} THEN "starter_only"
    ELSE "middle_only"

\* Phase multipliers that ignore the pattern.
PhaseMultiplierUniform(pattern) == 100

\* PipelineConfig.phase_multipliers, in hundredths.
PhaseMultiplier(pattern) ==
    CASE pattern = "bis_only" -> 100
      [] pattern = "starter_only" -> 80
      [] pattern = "all_phases" -> 100
      [] pattern = "middle_only" -> 85

\* AffixResolver.is_threshold / resolve_id, on a resolver
\* [known_ids, threshold_ids].
IsThreshold(resolver, affix_id) == affix_id \in resolver.threshold_ids
Resolvable(resolver, affix_id) == affix_id \in resolver.known_ids

\* PlannerWeightExtractor.extract, first loop: the entries of one phase
\* that are kept, and the maximum tier of an affix among them.
KeptEntries(source, resolver, phase) ==
    SelectSeq(source.phases[phase].affixes,
              LAMBDA e : /\ ~IsThreshold(resolver, e.affix_id)
                         /\ Resolvable(resolver, e.affix_id))

MaxTier(entries, affix_id) ==
    LET tiers == {Max(0, e.tier) : e \in {x \in Range(entries) : x.affix_id = affix_id}}
    IN  CHOOSE t \in tiers : \A u \in tiers : u <= t

\* The concatenation of the sequences of ss, in order.
RECURSIVE Flatten(_)
Flatten(ss) ==
    IF ss = <<>> THEN <<>>
    ELSE IF Len(ss) = 1 THEN ss[1]
    ELSE Flatten(SubSeq(ss, 1, Len(ss) \div 2))
            \o Flatten(SubSeq(ss, Len(ss) \div 2 + 1, Len(ss)))

\* PlannerWeightExtractor.extract
PlannerExtract(source, resolver) ==
    IF source.source_type # "planner" THEN <<>>
    ELSE
    LET kept(p) == KeptEntries(source, resolver, p)
        all_kept == Flatten([i \in 1..3 |-> kept(PhaseOrder[i])])
        affix_ids == FirstSeen([i \in 1..Len(all_kept) |-> all_kept[i].affix_id])
        present(a) == {p \in Phases : \E e \in Range(kept(p)) : e.affix_id = a}
        one(a) ==
            LET in_order == SelectSeq(PhaseOrder, LAMBDA p : p \in present(a))
                multiplier == PhaseMultiplier(DeterminePhasePattern(present(a)))
            IN  [i \in 1..Len(in_order) |->
                   LET tier == MaxTier(kept(in_order[i]), a)
                   IN  [affix_id |-> a,
                        phase |-> in_order[i],
                        weight |-> Min(10000,
                                       RoundDiv(TierMidpoint(tier) * multiplier, 100)),
                        min_tier |-> Some(tier),
                        category |-> TierToCategory(tier),
                        derivation_method |-> "tier_translation",
                        source_id |-> source.source_id]]
    IN  Flatten([i \in 1..Len(affix_ids) |-> one(affix_ids[i])])

\* _STRICTNESS_SIGNALS
StrictnessSignal(strictness) ==
    CASE strictness = "uber_strict" -> [category |-> "essential", weight |-> 9500]
      [] strictness = "very_strict" -> [category |-> "strong", weight |-> 7500]
      [] strictness = "strict" -> [category |-> "useful", weight |-> 5000]
      [] strictness = "relaxed" -> [category |-> "filler", weight |-> 2500]
      [] strictness = "show_all" -> [category |-> "filler", weight |-> 1000]

strictness_order == <<"uber_strict", "very_strict", "strict", "relaxed", "show_all">>

\* FilterWeightExtractor.extract
FilterExtract(source, resolver) ==
    IF source.source_type # "filter" THEN <<>>
    ELSE
    LET strictness_affixes == source.phases["endgame"].strictness_affixes
        ids_at(l) == IF l \in DOMAIN strictness_affixes
                     THEN SelectSeq(strictness_affixes[l],
                             LAMBDA a : /\ ~IsThreshold(resolver, a)
                                        /\ Resolvable(resolver, a))
                     ELSE <<>>
        affix_ids == FirstSeen(Flatten([i \in 1..5 |-> ids_at(strictness_order[i])]))
        best(a) == strictness_order[CHOOSE i \in 1..5 :
                      /\ a \in Range(ids_at(strictness_order[i]))
                      /\ \A j \in 1..(i - 1) : a \notin Range(ids_at(strictness_order[j]))]
        one(a) == [i \in 1..3 |->
                     [affix_id |-> a,
                      phase |-> PhaseOrder[i],
                      weight |-> StrictnessSignal(best(a)).weight,
                      min_tier |-> None,
                      category |-> StrictnessSignal(best(a)).category,
                      derivation_method |-> "strictness_survival",
                      source_id |-> source.source_id]]
    IN  IF DOMAIN strictness_affixes = {} THEN <<>>
        ELSE Flatten([i \in 1..Len(affix_ids) |-> one(affix_ids[i])])

\* -------------------------------------------------------------------------
\* Static inputs: the affix catalog and game-constants.json
\* -------------------------------------------------------------------------
Affix(id, name) == [affix_id |-> id, name |-> name]

Edge(from, to, type, strength, condition) ==
    [from |-> from, to |-> to, type |-> type, strength |-> strength,
     condition |-> condition]

\* The catalog of the pipeline runs: 16 affixes, the first three
\* being the baseline affixes.
PipelineCatalog ==
    [i \in 1..16 |->
        Affix(i, CASE i = 1 -> "Added Health"
                   [] i = 2 -> "Added Vitality"
                   [] i = 3 -> "Movement Speed"
                   [] OTHER -> "Fire Damage")]

PipelineConstants ==
    [mastery_to_class |-> << [k |-> "shaman", v |-> "primalist"] >>,
     class_hierarchy |-> {"primalist"},
     damage_type_profiles |->
        << [k |-> "cold", v |-> [primaryAffixIds |-> <<4>>, synergyAffixIds |-> <<5>>]] >>,
     threshold_affix_ids |-> {16},
     affix_edges |-> << Edge(4, 5, "SYNERGY", 100, None) >>]

\* AffixResolver: the loaded index and threshold set.
AffixResolver(catalog, constants) ==
    [known_ids |-> {a.affix_id : a \in Range(catalog)},
     threshold_ids |-> constants.threshold_affix_ids]

\* InheritanceResolver.__init__ (with AffixRelationshipGraph.__init__ of
\* _load_dependencies): the constants, the name index and the graph.
InheritanceResolver(catalog, constants) ==
    [mastery_to_class |-> constants.mastery_to_class,
     class_hierarchy |-> constants.class_hierarchy,
     damage_type_profiles |-> constants.damage_type_profiles,
     threshold_affix_ids |-> constants.threshold_affix_ids,
     name_to_id |-> BuildNameToIdIndex(catalog, keyword_map),
     graph |-> GraphFromEdges(constants.affix_edges)]

\* -------------------------------------------------------------------------
\* pipeline.py
\* -------------------------------------------------------------------------
Slugs == 1..MaxBuilds

File(suffix, slug, content) == [suffix |-> suffix, slug |-> slug, content |-> content]

\* _discover_sources: the planner file of a slug, then the filter files
\* whose slug has a planner file, in listing order.
DiscoverSources(planners, filters) ==
    [b \in planners |->
        <<File("json", b, "planner")>> \o SelectSeq(filters, LAMBDA f : f.slug = b)]

\* run, lines 290-295: the --only restriction.
ApplyOnly(sources, only_build) ==
    IF only_build = None THEN sources
    ELSE IF only_build[1] \in DOMAIN sources
    THEN [b \in {only_build[1]} |-> sources[b]]
    ELSE [b \in {} |-> <<>>]

\* The parameters of InheritanceResolver.resolve, and the keyword
\* arguments process_build calls it with.
ResolveParams ==
    {"mastery", "damage_type", "build_slug", "consensus_weights_by_phase",
     "source_count"}
ResolveRequired == {"mastery", "damage_type", "build_slug"}
ProcessBuildResolveKwargs ==
    {"mastery", "damage_types", "archetype", "build_slug",
     "consensus_weights_by_phase", "source_count"}

\* A call raises TypeError on an unexpected keyword or a missing
\* required parameter.
CallAccepts(kwargs) == kwargs \subseteq ResolveParams /\ ResolveRequired \subseteq kwargs

\* consensus_by_phase of process_build: phase -> its consensus weights.
RECURSIVE GroupByPhase(_, _)
GroupByPhase(d, cws) ==
    IF cws = <<>> THEN d
    ELSE GroupByPhase(
            DictSet(d, Head(cws).phase, Append(DictGet(d, Head(cws).phase, <<>>), Head(cws))),
            Tail(cws))

Raised(error) == [raised |-> TRUE, error |-> error, profile |-> None]
Returned(profile) == [raised |-> FALSE, error |-> "", profile |-> Some(profile)]

\* process_build, lines 242-255: the accepted sources' extracted
\* weights, merged by the consensus engine (no baseline is passed).
ProcessBuildConsensus(accepted, scores) ==
    LET resolver == AffixResolver(PipelineCatalog, PipelineConstants)
        all_extracted ==
            Flatten([i \in 1..Len(accepted) |->
                       IF accepted[i].source_type = "planner"
                       THEN PlannerExtract(accepted[i], resolver)
                       ELSE FilterExtract(accepted[i], resolver)])
    IN  Merge(all_extracted, scores, None)

\* process_build, lines 224-276: what follows the validation loop, given
\* the result of the merge.  first is the source the build parameters are
\* read from: raw_sources[0] in the fallback branch, accepted_sources[0]
\* otherwise.
ProcessBuildTail(slug, raw, accepted, merged) ==
    LET first == IF accepted = <<>> THEN raw[1] ELSE accepted[1]
    IN  IF ~HasAttr("damage_types") \/ ~HasAttr("archetype")
        THEN Raised("AttributeError")
        ELSE IF ~CallAccepts(ProcessBuildResolveKwargs)
        THEN Raised("TypeError")
        ELSE Returned(Resolve(InheritanceResolver(PipelineCatalog, PipelineConstants),
                              first.mastery, first.damage_type, slug,
                              IF merged # <<>>
                              THEN Some(GroupByPhase(<<>>, merged))
                              ELSE None,
                              Len(accepted)))

\* run, lines 307-324: the try / except around process_build.
BuildSucceeded(rep, slug, profile) ==
    [rep EXCEPT
        !.builds_processed = @ + 1,
        !.low_confidence_builds =
            IF \/ profile.specificity_score < low_confidence_specificity_threshold
               \/ profile.source_count < low_confidence_source_count
            THEN Append(@, slug) ELSE @]

BuildFailedUnrecorded(rep, slug, error) == rep

BuildFailed(rep, slug, error) ==
    [rep EXCEPT !.builds_failed = Append(@, [build |-> slug, reason |-> error])]

\* run, lines 329-331: whether the writer is invoked.
ShouldWrite(cfg, profs) ==
    /\ ~cfg.dry_run
    /\ (DOMAIN profs # {} \/ ~cfg.force)

ExitStatusIgnoringFailures(rep) ==
    IF rep.builds_processed = 0 THEN 1 ELSE 0

\* main, lines 393-395.
ExitStatus(rep) ==
    IF rep.builds_failed # <<>> /\ rep.builds_processed = 0 THEN 1 ELSE 0

\* A listing of the filters directory: files sorted by name, so by slug.
FilterListings ==
    {l \in UNION {[1..n -> [slug : Slugs, content : FilterContents]] : n \in 0..MaxFilters} :
        \A i \in 1..(Len(l) - 1) : l[i].slug <= l[i + 1].slug}

EmptyReport ==
    [builds_processed |-> 0, builds_failed |-> <<>>, sources_accepted |-> 0,
     sources_rejected |-> <<>>, low_confidence_builds |-> <<>>]

\* The local state of a run at position p.
RunState(p) ==
    /\ pc = p
    /\ build_sources = [b \in {} |-> <<>>]
    /\ todo = <<>>
    /\ attempted = <<>>
    /\ build_slug = 0
    /\ file_idx = 0
    /\ raw_sources = <<>>
    /\ src_idx = 0
    /\ accepted_sources = <<>>
    /\ known_checksums = {}
    /\ quality_scores = <<>>
    /\ consensus_weights = <<>>
    /\ validated = <<>>
    /\ report = EmptyReport
    /\ profiles = [b \in {} |-> <<>>]
    /\ write_calls = 0
    /\ kb_file = [written_by_run |-> FALSE, builds |-> {}]
    /\ exit_code = None

NoCall == [op |-> "none"]

\* No component is called on its own.
NoCalls ==
    /\ loaded = [catalog |-> PipelineCatalog, constants |-> PipelineConstants]
    /\ call = NoCall
    /\ returned = None

\* The writer is not running.
WriterIdle ==
    /\ fs = [p \in {} |-> <<>>]
    /\ wpc = "idle"
    /\ wfile = 0
    /\ wgen = 0
    /\ observed = None

\* No pipeline run is in progress.
NoRun ==
    /\ RunState("idle")
    /\ config = [dry_run |-> TRUE, force |-> FALSE, only_build |-> None]
    /\ constants_exist = TRUE
    /\ planners_dir = {}
    /\ filters_dir = <<>>

Init ==
    /\ RunState("start")
    /\ config \in [dry_run : BOOLEAN, force : BOOLEAN, only_build : {None, Some(1)}]
    /\ constants_exist \in BOOLEAN
    /\ planners_dir \in SUBSET Slugs
    /\ \E l \in FilterListings :
          filters_dir = [i \in 1..Len(l) |-> File("xml", l[i].slug, l[i].content)]
    /\ NoCalls
    /\ WriterIdle

buildVars == <<build_slug, file_idx, raw_sources, src_idx, accepted_sources,
               known_checksums, quality_scores, consensus_weights, validated>>
inputVars == <<config, constants_exist, planners_dir, filters_dir>>

\* run, lines 280-303: load the dependencies (sys.exit(1) without
\* game-constants.json), discover the sources, apply --only.
RunStart ==
    /\ pc = "start"
    /\ IF ~constants_exist
       THEN /\ pc' = "exited"
            /\ exit_code' = Some(1)
            /\ UNCHANGED <<build_sources, todo>>
       ELSE /\ build_sources' = ApplyOnly(DiscoverSources(planners_dir, filters_dir),
                                          config.only_build)
            /\ todo' = SortedSeq(DOMAIN build_sources')
            /\ pc' = "loop"
            /\ UNCHANGED exit_code
    /\ UNCHANGED <<outsideRun, inputVars, buildVars, attempted, report, profiles, write_calls, kb_file>>

\* The next build enters process_build with the raw sources of the
\* build before it still in the list.
NextBuildKeepingSources ==
    /\ pc = "loop"
    /\ todo # <<>>
    /\ build_slug' = Head(todo)
    /\ todo' = Tail(todo)
    /\ attempted' = Append(attempted, Head(todo))
    /\ file_idx' = 1
    /\ raw_sources' = raw_sources
    /\ src_idx' = 1
    /\ accepted_sources' = <<>>
    /\ known_checksums' = {}
    /\ quality_scores' = <<>>
    /\ consensus_weights' = <<>>
    /\ pc' = "ingest"
    /\ UNCHANGED <<outsideRun, inputVars, build_sources, validated, report, profiles, write_calls, kb_file, exit_code>>

\* run, line 305-308: the next build in sorted slug order enters
\* process_build (lines 181-188).
NextBuild ==
    /\ pc = "loop"
    /\ todo # <<>>
    /\ build_slug' = Head(todo)
    /\ todo' = Tail(todo)
    /\ attempted' = Append(attempted, Head(todo))
    /\ file_idx' = 1
    /\ raw_sources' = <<>>
    /\ src_idx' = 1
    /\ accepted_sources' = <<>>
    /\ known_checksums' = {}
    /\ quality_scores' = <<>>
    /\ consensus_weights' = <<>>
    /\ pc' = "ingest"
    /\ UNCHANGED <<outsideRun, inputVars, build_sources, validated, report, profiles, write_calls, kb_file, exit_code>>

\* process_build, lines 189-199: one iteration of the ingest loop.
IngestFile ==
    /\ pc = "ingest"
    /\ file_idx <= Len(build_sources[build_slug])
    /\ LET r == IngestFileResult(build_slug, file_idx, build_sources[build_slug][file_idx])
       IN  IF r.ok
           THEN /\ raw_sources' = Append(raw_sources, r.raw[1])
                /\ UNCHANGED report
           ELSE /\ report' = [report EXCEPT !.sources_rejected =
                                Append(@, [source_id |-> <<build_slug, file_idx>>,
                                           build |-> build_slug,
                                           reason |-> Reason("ingestion_error", 0)])]
                /\ UNCHANGED raw_sources
    /\ file_idx' = file_idx + 1
    /\ UNCHANGED <<outsideRun, inputVars, build_sources, todo, attempted, build_slug, src_idx,
                   accepted_sources, known_checksums, quality_scores,
                   consensus_weights, validated,
                   profiles, write_calls, kb_file, exit_code, pc>>

\* process_build, lines 201-202, after the ingest loop: ValueError when
\* nothing was ingested (caught by run, lines 319-324).
IngestDone ==
    /\ pc = "ingest"
    /\ file_idx > Len(build_sources[build_slug])
    /\ IF raw_sources = <<>>
       THEN /\ report' = BuildFailed(report, build_slug, "ValueError")
            /\ pc' = "loop"
       ELSE /\ pc' = "validate"
            /\ UNCHANGED report
    /\ UNCHANGED <<outsideRun, inputVars, build_sources, todo, attempted, buildVars, profiles,
                   write_calls, kb_file, exit_code>>

\* An iteration of the validation loop that counts a rejected source in
\* sources_accepted as well.
ValidateSourceCountingAll ==
    /\ pc = "validate"
    /\ src_idx <= Len(raw_sources)
    /\ LET source == raw_sources[src_idx]
           v == Validate(source, AffixResolver(PipelineCatalog, PipelineConstants).known_ids,
                         known_checksums)
       IN  /\ validated' = Append(validated, [build |-> build_slug, source |-> source,
                                             result |-> v, seen |-> known_checksums])
           /\ IF ~v.accepted
              THEN /\ report' = [report EXCEPT !.sources_rejected =
                                   Append(@, [source_id |-> source.source_id,
                                              build |-> build_slug,
                                              reason |-> v.reason]),
                                                !.sources_accepted = @ + 1]
                   /\ UNCHANGED <<accepted_sources, quality_scores, known_checksums>>
              ELSE /\ accepted_sources' = Append(accepted_sources, source)
                   /\ quality_scores' = DictSet(quality_scores, source.source_id,
                                                v.quality[1].overall)
                   /\ known_checksums' = known_checksums \cup {source.checksum}
                   /\ report' = [report EXCEPT !.sources_accepted = @ + 1]
    /\ src_idx' = src_idx + 1
    /\ UNCHANGED <<outsideRun, inputVars, build_sources, todo, attempted, build_slug, file_idx,
                   raw_sources, consensus_weights, profiles, write_calls, kb_file,
                   exit_code, pc>>

\* process_build, lines 209-222: one iteration of the validation loop.
ValidateSource ==
    /\ pc = "validate"
    /\ src_idx <= Len(raw_sources)
    /\ LET source == raw_sources[src_idx]
           v == Validate(source, AffixResolver(PipelineCatalog, PipelineConstants).known_ids,
                         known_checksums)
       IN  /\ validated' = Append(validated, [build |-> build_slug, source |-> source,
                                             result |-> v, seen |-> known_checksums])
           /\ IF ~v.accepted
              THEN /\ report' = [report EXCEPT !.sources_rejected =
                                   Append(@, [source_id |-> source.source_id,
                                              build |-> build_slug,
                                              reason |-> v.reason])]
                   /\ UNCHANGED <<accepted_sources, quality_scores, known_checksums>>
              ELSE /\ accepted_sources' = Append(accepted_sources, source)
                   /\ quality_scores' = DictSet(quality_scores, source.source_id,
                                                v.quality[1].overall)
                   /\ known_checksums' = known_checksums \cup {source.checksum}
                   /\ report' = [report EXCEPT !.sources_accepted = @ + 1]
    /\ src_idx' = src_idx + 1
    /\ UNCHANGED <<outsideRun, inputVars, build_sources, todo, attempted, build_slug, file_idx,
                   raw_sources, consensus_weights, profiles, write_calls, kb_file,
                   exit_code, pc>>

\* run, lines 307-324: the outcome of process_build is recorded.
RecordBuild(out, merged) ==
    /\ IF out.raised
       THEN /\ report' = BuildFailed(report, build_slug, out.error)
            /\ UNCHANGED profiles
       ELSE /\ profiles' = [b \in DOMAIN profiles \cup {build_slug} |->
                              IF b = build_slug THEN out.profile[1] ELSE profiles[b]]
            /\ report' = BuildSucceeded(report, build_slug, out.profile[1])
    /\ consensus_weights' = merged

FinishBuildWith(merged) ==
    RecordBuild(ProcessBuildTail(build_slug, raw_sources, accepted_sources, merged), merged)

\* process_build, lines 224-276, and its caller's try / except
\* (run, lines 307-324).
FinishBuild ==
    /\ pc = "validate"
    /\ src_idx > Len(raw_sources)
    /\ FinishBuildWith(IF accepted_sources = <<>> THEN <<>>
                       ELSE ProcessBuildConsensus(accepted_sources, quality_scores))
    /\ pc' = "loop"
    /\ UNCHANGED <<outsideRun, inputVars, build_sources, todo, attempted, build_slug, file_idx,
                   raw_sources, src_idx, accepted_sources, known_checksums,
                   quality_scores, validated, write_calls,
                   kb_file, exit_code>>

\* run, lines 326-336: the output is written, or not.
WriteOutput ==
    /\ pc = "loop"
    /\ todo = <<>>
    /\ IF ShouldWrite(config, profiles)
       THEN /\ write_calls' = write_calls + 1
            /\ kb_file' = [written_by_run |-> TRUE, builds |-> DOMAIN profiles]
       ELSE UNCHANGED <<write_calls, kb_file>>
    /\ pc' = "returned"
    /\ UNCHANGED <<outsideRun, inputVars, build_sources, todo, attempted, buildVars, report,
                   profiles, exit_code>>

\* main, lines 391-395: the exit status.
MainExit ==
    /\ pc = "returned"
    /\ exit_code' = Some(ExitStatus(report))
    /\ pc' = "exited"
    /\ UNCHANGED <<outsideRun, inputVars, build_sources, todo, attempted, buildVars, report,
                   profiles, write_calls, kb_file>>

Next ==
    \/ RunStart
    \/ NextBuild
    \/ IngestFile
    \/ IngestDone
    \/ ValidateSource
    \/ FinishBuild
    \/ WriteOutput
    \/ MainExit

Spec == Init /\ [][Next]_vars

\* -------------------------------------------------------------------------
\* Properties of the pipeline run (specification Spec)
\* -------------------------------------------------------------------------
FailedSlugs == {report.builds_failed[i].build : i \in 1..Len(report.builds_failed)}

BetweenBuilds == pc \in {"loop", "returned"}

\* C1: an exception raised inside process_build is caught by run and
\* recorded in builds_failed with the slug and a reason, and the builds
\* after it in sorted slug order are still visited: between builds every
\* attempted build has either a profile or a failure record, and when
\* run returns every discovered build was attempted, in sorted order.
C1_FailureIsolated ==
    /\ BetweenBuilds =>
          /\ \A i \in 1..Len(attempted) :
                \/ attempted[i] \in DOMAIN profiles
                \/ \E j \in 1..Len(report.builds_failed) :
                      /\ report.builds_failed[j].build = attempted[i]
                      /\ report.builds_failed[j].reason # ""
          /\ Len(report.builds_failed) + report.builds_processed = Len(attempted)
    /\ pc = "returned" => attempted = SortedSeq(DOMAIN build_sources)

\* The first build failed and the build after it was visited too.
C1_Witness ==
    /\ pc = "returned"
    /\ Len(attempted) >= 2
    /\ report.builds_failed # <<>>
    /\ report.builds_failed[1].build = attempted[1]
    /\ attempted[2] \in FailedSlugs \cup DOMAIN profiles

\* C2: a build with at least one ingested source, all of them rejected
\* by the validator, ends as a success: its profile is stored with
\* source_count 0, it is counted in builds_processed and it is not in
\* builds_failed.
C2_AllRejectedIsSuccess ==
    (/\ pc = "loop"
     /\ build_slug # 0
     /\ raw_sources # <<>>
     /\ src_idx > Len(raw_sources)
     /\ accepted_sources = <<>>)
    => /\ build_slug \in DOMAIN profiles
       /\ profiles[build_slug].source_count = 0
       /\ build_slug \notin FailedSlugs
       /\ report.builds_processed >= 1

\* C5: the writer is invoked at most once per run, never in a dry run,
\* and not when no profile was produced unless the run is forced.
C5_WriteGuard ==
    /\ write_calls <= 1
    /\ config.dry_run => write_calls = 0
    /\ (pc \in {"returned", "exited"} /\ DOMAIN profiles = {} /\ ~config.force)
          => (write_calls = 0 /\ ~kb_file.written_by_run)

PassesOtherRules(source) ==
    Validate(source, AffixResolver(PipelineCatalog, PipelineConstants).known_ids, {}).accepted

\* The validate() calls of the build being processed.
BuildCalls == SelectSeq(validated, LAMBDA c : c.build = build_slug)

MaxEdges == 2          \* edges in game-constants.json
MaxSourceCount == 3    \* the source_count argument

\* Affix catalogs: all three baseline names; a regen affix ahead of
\* added health and nothing else of the baseline; no baseline name.
ResolveCatalogs ==
    { << Affix(1, "Added Health"), Affix(2, "Added Vitality"),
         Affix(3, "Movement Speed"), Affix(4, "Fire Damage") >>,
      << Affix(1, "Health Regen"), Affix(2, "Added Health"),
         Affix(4, "Fire Damage") >>,
      << Affix(4, "Fire Damage"), Affix(5, "Fire Penetration") >> }

ResolveThresholds == { {}, {2}, {1, 2, 3} }

EdgePool ==
    { Edge(1, 2, "SYNERGY", 100, None),
      Edge(4, 1, "SYNERGY", 50, None),
      Edge(4, 6, "SYNERGY", -100, None),
      Edge(1, 2, "PREREQUISITE", 0, Some(<<"mastery", "==", "sorcerer">>)),
      Edge(2, 6, "PREREQUISITE", 0, Some(<<"attack_type", "==", "melee">>)),
      Edge(3, 6, "PREREQUISITE", 0,
           Some(<<"base_class", "==", "mage", "||", "damage_type", "==", "fire">>)) }

ResolveConstants ==
    { [mastery_to_class |-> << [k |-> "sorcerer", v |-> "mage"],
                               [k |-> "lich", v |-> "acolyte"] >>,
       class_hierarchy |-> {"mage"},
       damage_type_profiles |->
          << [k |-> "fire", v |-> [primaryAffixIds |-> <<4>>, synergyAffixIds |-> <<5, 4>>]],
             [k |-> "cold", v |-> [primaryAffixIds |-> <<>>, synergyAffixIds |-> <<5>>]] >>,
       threshold_affix_ids |-> t,
       affix_edges |-> e] :
        t \in ResolveThresholds,
        e \in UNION {[1..n -> EdgePool] : n \in 0..MaxEdges} }

ConsensusWeight(affix_id, phase, weight, category, min_tier) ==
    [affix_id |-> affix_id, phase |-> phase, weight |-> weight,
     category |-> category, min_tier |-> min_tier, consensus_spread |-> 0,
     confidence |-> 8000, source_count |-> 1]

\* The consensus_weights_by_phase argument: None, an empty dict, a dict
\* with an empty list, a dict with data.
ConsensusInputs ==
    { None,
      Some(<<>>),
      Some(<< [k |-> "starter", v |-> <<>>] >>),
      Some(<< [k |-> "starter",
               v |-> << ConsensusWeight(2, "starter", 4000, "useful", Some(0)),
                        ConsensusWeight(4, "starter", 8000, "essential", Some(3)) >>],
              [k |-> "endgame",
               v |-> << ConsensusWeight(2, "endgame", 4000, "useful", None) >>] >>) }

InitResolve ==
    /\ NoRun
    /\ WriterIdle
    /\ loaded \in [catalog : ResolveCatalogs, constants : ResolveConstants]
    /\ call = NoCall
    /\ returned = None

\* One call of InheritanceResolver.resolve on a resolver constructed
\* from the loaded data.
ResolveCall ==
    /\ call = NoCall
    /\ \E mastery \in {"sorcerer", "lich", "wanderer"},
          damage_type \in {"", "fire", "cold", "void"},
          consensus \in ConsensusInputs,
          source_count \in 0..MaxSourceCount :
          /\ call' = [op |-> "resolve", mastery |-> mastery,
                      damage_type |-> damage_type, consensus |-> consensus,
                      source_count |-> source_count]
          /\ returned' = Some(Resolve(InheritanceResolver(loaded.catalog, loaded.constants),
                                    mastery, damage_type, 1, consensus, source_count))
    /\ UNCHANGED <<loaded, pipeVars, writeVars>>

NextResolve == ResolveCall

SpecResolve == InitResolve /\ [][NextResolve]_vars

ResolvedWithoutConsensus ==
    /\ call.op = "resolve"
    /\ ~Truthy(call.consensus)

\* C3: a build resolved with no consensus data and source_count 0 has
\* confidence "low", a layer other than "specific", and the same list in
\* all three phases, every entry with min_tier 1, spread 0.0 and
\* confidence 0.5.
C3_PureInheritanceProfile ==
    (ResolvedWithoutConsensus /\ call.source_count = 0) =>
        LET profile == returned[1] IN
        /\ profile.confidence = "low"
        /\ profile.data_source_layer \in {"baseline", "damage_type", "class", "mastery"}
        /\ profile.phases["starter"] = profile.phases["endgame"]
        /\ profile.phases["endgame"] = profile.phases["aspirational"]
        /\ \A i \in 1..Len(profile.phases["starter"]) :
              LET entry == profile.phases["starter"][i] IN
              /\ entry.min_tier = 1
              /\ entry.consensus_spread = 0
              /\ entry.confidence = 5000

\* A pure-inheritance profile at the mastery layer with affixes in it.
C3_Witness ==
    /\ ResolvedWithoutConsensus
    /\ call.source_count = 0
    /\ returned[1].data_source_layer = "mastery"
    /\ Len(returned[1].phases["starter"]) >= 2

\* C4: resolve called with no consensus data returns three non-empty
\* phase lists, whatever the mastery, the damage type, the prerequisite
\* edges and the threshold IDs.
C4_NonEmptyProfile ==
    ResolvedWithoutConsensus =>
        \A p \in Phases : returned[1].phases[p] # <<>>

\* -------------------------------------------------------------------------
\* SourceValidator.validate called on its own (specification SpecValidate)
\* -------------------------------------------------------------------------
MaxIds == 16           \* affix IDs a source may reference

ValidateChecksums == {"a", "b"}

\* The j-th of the populated phases (in _ALL_PHASES order).
PopulatedOrder(populated) == SelectSeq(PhaseOrder, LAMBDA p : p \in populated)

\* The IDs a populated phase holds: all of them, or every |populated|-th
\* when the IDs are split over the phases.
PhaseIds(ids, populated, split, p) ==
    LET order == PopulatedOrder(populated)
        j == CHOOSE i \in 1..Len(order) : order[i] = p
    IN  IF p \notin populated THEN {}
        ELSE IF ~split THEN ids
        ELSE {x \in ids : x % Len(order) = j - 1}

\* A RawSource as an ingester builds it.  layout:
\*   affixes      : planner format, IDs in the "affixes" lists
\*   strict       : filter format, IDs under the "strict" level
\*   empty_levels : five strictness levels without IDs, IDs in "affixes"
SourceOf(source_type, layout, ids, populated, split, checksum) ==
    [source_id |-> <<1, 1>>,
     source_type |-> source_type,
     mastery |-> "shaman",
     damage_type |-> "cold",
     phases |->
        [p \in Phases |->
           [affixes |->
               IF layout = "strict" THEN <<>>
               ELSE LET sorted == SortedSeq(PhaseIds(ids, populated, split, p))
                    IN  [i \in 1..Len(sorted) |-> [affix_id |-> sorted[i], tier |-> 5]],
            strictness_affixes |->
               IF layout = "affixes" \/ p \notin populated THEN NoStrictness
               ELSE [l \in StrictnessLevels |->
                       IF l = "strict" /\ layout = "strict"
                       THEN SortedSeq(PhaseIds(ids, populated, split, p))
                       ELSE <<>>]]],
     checksum |-> checksum,
     covered_masteries |-> <<"shaman">>]

\* The masteries a source may say it covers: none, one, two, ten.
CoveredMasteries ==
    {<<>>, <<"shaman">>, <<"shaman", "druid">>,
     <<"shaman", "druid", "beastmaster", "sorcerer", "spellblade", "runemaster",
       "paladin", "void_knight", "forge_guard", "necromancer">>}

ValidateSources ==
    { SourceOf(t, layout, (1..n) \cup extra, populated, split, c) :
        t \in {"planner", "filter"},
        layout \in {"affixes", "strict", "empty_levels"},
        n \in (min_unique_affixes - 2)..MaxIds,
        extra \in {{}, {0}},
        populated \in SUBSET Phases,
        split \in BOOLEAN,
        c \in ValidateChecksums }

InitValidate ==
    /\ NoRun
    /\ WriterIdle
    /\ loaded = [known_ids |-> 1..MaxIds]
    /\ call = NoCall
    /\ returned = None

\* One call of SourceValidator.validate.
ValidateCall ==
    /\ call = NoCall
    /\ \E src \in ValidateSources, covered \in CoveredMasteries,
          seen \in SUBSET ValidateChecksums :
          /\ call' = [op |-> "validate",
                      source |-> [src EXCEPT !.covered_masteries = covered],
                      known_checksums |-> seen]
          /\ returned' = Some(Validate(call'.source, loaded.known_ids, seen))
    /\ UNCHANGED <<loaded, pipeVars, writeVars>>

NextValidate == ValidateCall

SpecValidate == InitValidate /\ [][NextValidate]_vars

\* The distinct affix IDs a source references across its phases.
ReferencedIds(source) ==
    UNION { {source.phases[p].affixes[i].affix_id :
                i \in 1..Len(source.phases[p].affixes)}
            \cup UNION { Range(source.phases[p].strictness_affixes[l]) :
                           l \in DOMAIN source.phases[p].strictness_affixes } :
            p \in Phases }

\* Phase differentiation as the rule states it.
Differentiated(source) ==
    IF source.source_type = "planner"
    THEN \E p, q \in Phases :
            /\ p # q
            /\ source.phases[p].affixes # <<>>
            /\ source.phases[q].affixes # <<>>
    ELSE \E p \in Phases : DOMAIN source.phases[p].strictness_affixes # {}

\* C8: validate accepts a source exactly when it references at least
\* min_unique_affixes distinct IDs, all of them known, has phase
\* differentiation and an unseen checksum; a rejected source has no
\* quality score; fewer than min_unique_affixes IDs are rejected with
\* the count in the reason; an unknown ID always rejects.
C8_HardRejection ==
    call.op = "validate" =>
        LET source == call.source
            ids == ReferencedIds(source)
            verdict == returned[1]
        IN  /\ verdict.accepted <=>
                  /\ Cardinality(ids) >= min_unique_affixes
                  /\ ids \subseteq loaded.known_ids
                  /\ Differentiated(source)
                  /\ source.checksum \notin call.known_checksums
            /\ verdict.accepted <=> verdict.quality # None
            /\ Cardinality(ids) < min_unique_affixes =>
                  /\ ~verdict.accepted
                  /\ verdict.reason.kind = "too_few"
                  /\ verdict.reason.count = Cardinality(ids)
            /\ ~(ids \subseteq loaded.known_ids) => ~verdict.accepted

\* A planner source with its 15 IDs split over two phases is accepted
\* and scored.
C8_Witness ==
    /\ call.op = "validate"
    /\ call.source.source_type = "planner"
    /\ Cardinality(ReferencedIds(call.source)) = min_unique_affixes
    /\ Len(call.source.phases["starter"].affixes) < min_unique_affixes
    /\ returned[1].accepted
    /\ returned[1].quality # None

\* -------------------------------------------------------------------------
\* ConsensusEngine.merge called on its own (specification SpecMerge)
\* -------------------------------------------------------------------------
MaxObs == 3            \* observations of one (affix, phase) group
MaxCluster == 5        \* equal observations next to one far observation

ObservedWeights == {4000, 5000, 8000}

\* The quality of an observation's source; <<>> for a source without an
\* entry in quality_scores.
ObservedQualities == {None, Some(0), Some(3000), Some(10000)}

\* The extracted weights of n sources for affix 4 in the endgame phase.
ExtractedWeights(ws) ==
    [i \in 1..Len(ws) |->
        [affix_id |-> 4, phase |-> "endgame", weight |-> ws[i],
         min_tier |-> Some(5), category |-> WeightToCategory(ws[i]),
         source_id |-> <<1, i>>]]

\* quality_scores: source_id -> overall quality, for the scored sources.
QualityDict(qs) ==
    LET scored == SelectSeq([i \in 1..Len(qs) |-> [k |-> <<1, i>>, q |-> qs[i]]],
                            LAMBDA e : e.q # None)
    IN  [i \in 1..Len(scored) |-> [k |-> scored[i].k, v |-> scored[i].q[1]]]

InitMerge ==
    /\ NoRun
    /\ WriterIdle
    /\ loaded = [baseline_weights |-> None]
    /\ call = NoCall
    /\ returned = None

\* A cluster of k equal observations and one far observation at position
\* pos: with k >= 5 the far one lies more than two sample standard
\* deviations from the mean.
ClusterWeights(k, pos) == [i \in 1..(k + 1) |-> IF i = pos THEN 9500 ELSE 5000]

ClusterQualities(k, pos, q) == [i \in 1..(k + 1) |-> IF i = pos THEN q ELSE Some(9000)]

\* The observations 50, 52, 48, 51, 95, all of quality 0.9.
ExampleWeights == <<5000, 5200, 4800, 5100, 9500>>

ExampleQualities == [i \in 1..5 |-> Some(9000)]

\* The (weights, qualities) merge is called with.
MergeInputs ==
    UNION { [ws : [1..n -> ObservedWeights], qs : [1..n -> ObservedQualities]] :
              n \in 1..MaxObs }
    \cup { [ws |-> ClusterWeights(k, pos), qs |-> ClusterQualities(k, pos, q)] :
              k \in 4..MaxCluster, pos \in 1..(MaxCluster + 1), q \in ObservedQualities }
    \cup { [ws |-> ExampleWeights, qs |-> ExampleQualities] }

\* One call of ConsensusEngine.merge.
MergeCall ==
    /\ call = NoCall
    /\ \E in \in MergeInputs :
          /\ call' = [op |-> "merge", weights |-> ExtractedWeights(in.ws),
                      quality_scores |-> QualityDict(in.qs)]
          /\ returned' = Some(Merge(ExtractedWeights(in.ws), QualityDict(in.qs),
                                    loaded.baseline_weights))
    /\ UNCHANGED <<loaded, pipeVars, writeVars>>

NextMerge == MergeCall

SpecMerge == InitMerge /\ [][NextMerge]_vars

\* The observations of the call: weight and quality (0.5 by default).
Observations ==
    [i \in 1..Len(call.weights) |->
        [weight |-> call.weights[i].weight,
         quality |-> DictGet(call.quality_scores, call.weights[i].source_id, 5000)]]

\* The observations that survive outlier filtering: with three or more
\* observations, those that are not low-quality outliers; all of them
\* when none would be left.
Survivors ==
    LET obs == Observations
        all == [i \in 1..Len(obs) |-> obs[i].weight]
        kept == SelectSeq(obs, LAMBDA o :
                    ~(IsOutlier(o.weight, all)
                      /\ o.quality < supplementary_quality_threshold))
    IN  IF Len(obs) < 3 \/ kept = <<>> THEN obs ELSE kept

\* C10: the consensus weight of a group is the quality-weighted mean of
\* the observations that survive outlier filtering, or their plain mean
\* when their total quality is 0.
C10_WeightedMean ==
    call.op = "merge" =>
        LET sv == Survivors
            total_quality == SumSeq([i \in 1..Len(sv) |-> sv[i].quality])
            expected ==
                IF total_quality = 0
                THEN RoundDiv(SumSeq([i \in 1..Len(sv) |-> sv[i].weight]), Len(sv))
                ELSE RoundDiv(SumSeq([i \in 1..Len(sv) |-> sv[i].weight * sv[i].quality]),
                              total_quality)
        IN  /\ Len(returned[1]) = 1
            /\ returned[1][1].weight = expected

\* -------------------------------------------------------------------------
\* output/writer.py (specification SpecWrite)
\* -------------------------------------------------------------------------
MaxWrites == 2         \* invocations of KnowledgeBaseWriter.write
ContentChunks == 2     \* pieces the bytes of a file reach the disk in

\* The three artifacts of write, in the order it writes them.
OutputFiles ==
    <<"knowledge-base.json", "knowledge-base.meta.json", "pipeline-report.json">>

\* A file's content: the write() invocation that produced it (0: an
\* earlier run) and how many of its pieces are on disk.
Content(gen, chunks) == [gen |-> gen, chunks |-> chunks]

TempPathIsTarget(path) == path

\* tempfile.mkstemp(dir=path.parent, suffix=".tmp"): a fresh name in the
\* target's directory.
TempPath(path) == "tmpXXXXXXXX.tmp"

\* The path _atomic_write is called with.
TargetPath == OutputFiles[wfile]

Remove(files, path) == [q \in DOMAIN files \ {path} |-> files[q]]

Put(files, path, content) ==
    [q \in DOMAIN files \cup {path} |-> IF q = path THEN content ELSE files[q]]

\* os.replace(tmp_path, path)
OsReplace(files, tmp_path, path) ==
    Remove(Put(files, path, files[tmp_path]), tmp_path)

InitWrite ==
    /\ NoRun
    /\ NoCalls
    /\ \E existing \in SUBSET Range(OutputFiles) :
          fs = [q \in existing |-> Content(0, ContentChunks)]
    /\ wpc = "idle"
    /\ wfile = 0
    /\ wgen = 0
    /\ observed = None

\* write is invoked: the first _atomic_write starts.
WriteStart ==
    /\ wpc \in {"idle", "done", "raised"}
    /\ wgen < MaxWrites
    /\ wgen' = wgen + 1
    /\ wfile' = 1
    /\ wpc' = "mkstemp"
    /\ UNCHANGED <<fs, observed, pipeVars, callVars>>

\* _atomic_write, lines 61-63: mkdir and mkstemp, outside the try; an
\* OSError here leaves write at once.
Mkstemp ==
    /\ wpc = "mkstemp"
    /\ \/ /\ fs' = Put(fs, TempPath(TargetPath), Content(wgen, 0))
          /\ wpc' = "write"
       \/ /\ wpc' = "raised"
          /\ UNCHANGED fs
    /\ UNCHANGED <<wfile, wgen, observed, pipeVars, callVars>>

\* _atomic_write, lines 65-66: the content goes to the temp file piece
\* by piece; the write may fail part-way.
WriteChunk ==
    /\ wpc = "write"
    /\ LET tmp_path == TempPath(TargetPath) IN
       \/ /\ fs' = [fs EXCEPT ![tmp_path].chunks = @ + 1]
          /\ wpc' = IF fs[tmp_path].chunks + 1 = ContentChunks
                    THEN "replace" ELSE "write"
       \/ /\ wpc' = "cleanup"
          /\ UNCHANGED fs
    /\ UNCHANGED <<wfile, wgen, observed, pipeVars, callVars>>

\* _atomic_write, line 67: os.replace, then write goes on to its next
\* file; or os.replace fails.
Replace ==
    /\ wpc = "replace"
    /\ \/ /\ fs' = OsReplace(fs, TempPath(TargetPath), TargetPath)
          /\ IF wfile < Len(OutputFiles)
             THEN wfile' = wfile + 1 /\ wpc' = "mkstemp"
             ELSE wpc' = "done" /\ UNCHANGED wfile
       \/ /\ wpc' = "cleanup"
          /\ UNCHANGED <<fs, wfile>>
    /\ UNCHANGED <<wgen, observed, pipeVars, callVars>>

\* _atomic_write, lines 68-73: the handler unlinks the temp file and
\* re-raises; write propagates the exception.  The unlink of the file
\* this call created is taken to succeed (one fault per call).
Cleanup ==
    /\ wpc = "cleanup"
    /\ fs' = Remove(fs, TempPath(TargetPath))
    /\ wpc' = "raised"
    /\ UNCHANGED <<wfile, wgen, observed, pipeVars, callVars>>

\* A concurrent reader reads one of the output paths.
Read ==
    /\ wpc # "idle"
    /\ \E path \in Range(OutputFiles) \cap DOMAIN fs :
          observed' = Some([path |-> path, content |-> fs[path]])
    /\ UNCHANGED <<fs, wpc, wfile, wgen, pipeVars, callVars>>

NextWrite ==
    \/ WriteStart
    \/ Mkstemp
    \/ WriteChunk
    \/ Replace
    \/ Cleanup
    \/ Read

SpecWrite == InitWrite /\ [][NextWrite]_vars

Complete(content) == content.chunks = ContentChunks

\* Every output path holds a complete file, and so does what a reader saw.
NoPartialFile ==
    /\ \A path \in Range(OutputFiles) \cap DOMAIN fs : Complete(fs[path])
    /\ observed # None => Complete(observed[1].content)

\* No temp file is left once write has returned or raised.
TempRemoved ==
    wpc \in {"idle", "done", "raised"} =>
        DOMAIN fs \subseteq Range(OutputFiles)

\* An output path changes only by the rename of the file being written,
\* which puts the complete new content there; a failing step changes no
\* output path.
RenameOnly ==
    \A path \in Range(OutputFiles) :
        /\ path \in DOMAIN fs => path \in DOMAIN fs'
        /\ (path \in DOMAIN fs' /\ (path \notin DOMAIN fs \/ fs'[path] # fs[path]))
              => /\ wpc = "replace"
                 /\ wpc' \in {"mkstemp", "done"}
                 /\ path = TargetPath
                 /\ fs'[path] = Content(wgen, ContentChunks)

ObservedWeightSeq == [i \in 1..Len(Observations) |-> Observations[i].weight]

\* An observation more than two standard deviations from the mean of a
\* group of three or more, from a source of quality >= 0.4.
RetainedOutliers ==
    {i \in 1..Len(Observations) :
        /\ Len(Observations) >= 3
        /\ IsOutlier(Observations[i].weight, ObservedWeightSeq)
        /\ Observations[i].quality >= supplementary_quality_threshold}

SurvivorWeights == [i \in 1..Len(Survivors) |-> Survivors[i].weight]

\* C11: a high-quality outlier of a group of three or more is retained
\* and the group's spread is min(1.0, normalized stdev + 0.1); the
\* observations 50, 52, 48, 51, 95 of quality 0.9 keep the 95 and carry
\* the penalty.
C11_OutlierRetained ==
    call.op = "merge" =>
        /\ RetainedOutliers # {} =>
              /\ returned[1][1].source_count = Len(Survivors)
              /\ returned[1][1].consensus_spread
                    = Min(100, NormalizedSpread(SurvivorWeights) + 10)
        /\ ObservedWeightSeq = ExampleWeights =>
              /\ returned[1][1].source_count = 5
              /\ returned[1][1].consensus_spread
                    = Min(100, NormalizedSpread(ExampleWeights) + 10)

\* -------------------------------------------------------------------------
\* Properties of a pipeline run (specification Spec), continued
\* -------------------------------------------------------------------------
\* The weights process_build extracted from the accepted sources.
AllExtracted ==
    LET resolver == AffixResolver(PipelineCatalog, PipelineConstants)
    IN  Flatten([i \in 1..Len(accepted_sources) |->
                   IF accepted_sources[i].source_type = "planner"
                   THEN PlannerExtract(accepted_sources[i], resolver)
                   ELSE FilterExtract(accepted_sources[i], resolver)])

\* The baseline the inheritance layers 0-3 give for a mastery and a
\* damage type.
InheritanceBaseline(mastery, damage_type) ==
    ResolveLayers(InheritanceResolver(PipelineCatalog, PipelineConstants),
                  mastery, damage_type, None).weights

BaselineMasteries == {PipelineConstants.mastery_to_class[i].k :
                        i \in 1..Len(PipelineConstants.mastery_to_class)} \cup {""}
BaselineDamageTypes == {PipelineConstants.damage_type_profiles[i].k :
                          i \in 1..Len(PipelineConstants.damage_type_profiles)} \cup {""}

\* The weight the clamping rule prescribes for one consensus weight whose
\* survivors are all of its group's observations.
ClampedWeight(cw, baseline) ==
    LET obs == SelectSeq(AllExtracted,
                  LAMBDA ew : ew.affix_id = cw.affix_id /\ ew.phase = cw.phase)
        ws == [i \in 1..Len(obs) |-> obs[i].weight]
        qs == [i \in 1..Len(obs) |-> DictGet(quality_scores, obs[i].source_id, 5000)]
        avg == WeightedAverage(ws, qs)
        b == DictGet(baseline, cw.affix_id, 0)
    IN  IF cw.source_count < min_sources_for_override /\ b > 0
        THEN RoundDiv(avg[1] + b * avg[2], 2 * avg[2])
        ELSE RoundDiv(avg[1], avg[2])

GroupSize(cw) ==
    Cardinality({i \in 1..Len(AllExtracted) :
                   /\ AllExtracted[i].affix_id = cw.affix_id
                   /\ AllExtracted[i].phase = cw.phase})

\* C12: in a pipeline run a group with fewer than min_sources_for_override
\* survivors and a positive inheritance baseline is emitted as
\* 0.5 * weighted mean + 0.5 * baseline, and every other group as its
\* weighted mean, for the baseline of some mastery and damage type.
C12_LowConfidenceClamping ==
    consensus_weights # <<>> =>
        \E mastery \in BaselineMasteries, damage_type \in BaselineDamageTypes :
            \A i \in 1..Len(consensus_weights) :
                consensus_weights[i].source_count = GroupSize(consensus_weights[i]) =>
                    consensus_weights[i].weight =
                        ClampedWeight(consensus_weights[i],
                                      InheritanceBaseline(mastery, damage_type))

\* -------------------------------------------------------------------------
\* Properties of InheritanceResolver.resolve (specification SpecResolve),
\* continued
\* -------------------------------------------------------------------------
\* The resolver of the call, and the merged-and-propagated map of the call.
CallResolver == InheritanceResolver(loaded.catalog, loaded.constants)
CallPropagated ==
    ResolvePropagated(CallResolver, call.mastery, call.damage_type, call.consensus)

WeightInRange(w) == 0 <= w /\ w <= 10000
UnitInRange(x) == 0 <= x /\ x <= 10000

\* C13: the weights of the consensus data, of the merged-and-propagated
\* inheritance map and of the output AffixWeights lie in [0, 100], and
\* the confidences and spreads in [0, 1].
C13_RangesHold ==
    call.op = "resolve" =>
        /\ \A i \in 1..Len(CallPropagated) : WeightInRange(CallPropagated[i].v)
        /\ \A p \in Phases : \A i \in 1..Len(returned[1].phases[p]) :
              LET entry == returned[1].phases[p][i] IN
              /\ WeightInRange(entry.weight)
              /\ UnitInRange(entry.confidence)
              /\ UnitInRange(entry.consensus_spread)

\* -------------------------------------------------------------------------
\* PlannerWeightExtractor.extract called on its own (specification
\* SpecExtract)
\* -------------------------------------------------------------------------
MaxEntries == 2        \* affix entries of the starter phase

ExtractIds == {1, 2}
ExtractTiers == 1..7

\* Resolvers: both IDs known; ID 2 unknown; ID 2 a threshold affix; both
\* threshold affixes.
ExtractResolvers ==
    { [known_ids |-> {1, 2}, threshold_ids |-> {}],
      [known_ids |-> {1}, threshold_ids |-> {}],
      [known_ids |-> {1, 2}, threshold_ids |-> {2}],
      [known_ids |-> {1, 2}, threshold_ids |-> {1, 2}] }

\* The "affixes" list of the starter phase, and of the two later phases.
StarterEntries ==
    UNION {[1..n -> [affix_id : ExtractIds, tier : ExtractTiers]] : n \in 0..MaxEntries}
LaterEntries ==
    { <<>>, <<[affix_id |-> 1, tier |-> 7]>>, <<[affix_id |-> 1, tier |-> 4]>>,
      <<[affix_id |-> 2, tier |-> 3]>> }

PlannerSource(starter, endgame, aspirational) ==
    [source_id |-> <<1, 1>>,
     source_type |-> "planner",
     mastery |-> "shaman",
     damage_type |-> "cold",
     phases |-> [p \in Phases |->
                   [affixes |-> CASE p = "starter" -> starter
                                  [] p = "endgame" -> endgame
                                  [] p = "aspirational" -> aspirational,
                    strictness_affixes |-> NoStrictness]],
     checksum |-> "a",
     covered_masteries |-> <<"shaman">>]

InitExtract ==
    /\ NoRun
    /\ WriterIdle
    /\ loaded \in ExtractResolvers
    /\ call = NoCall
    /\ returned = None

\* One call of PlannerWeightExtractor.extract.
ExtractCall ==
    /\ call = NoCall
    /\ \E starter \in StarterEntries, endgame \in LaterEntries,
          aspirational \in LaterEntries :
          LET source == PlannerSource(starter, endgame, aspirational) IN
          /\ call' = [op |-> "extract", source |-> source]
          /\ returned' = Some(PlannerExtract(source, loaded))
    /\ UNCHANGED <<loaded, pipeVars, writeVars>>

NextExtract == ExtractCall

SpecExtract == InitExtract /\ [][NextExtract]_vars

\* The tiers a source lists for an affix in a phase.
TiersSeen(a, p) ==
    {e.tier : e \in {x \in Range(call.source.phases[p].affixes) : x.affix_id = a}}

\* The phases in which the source lists an affix.
PhasesSeen(a) == {p \in Phases : TiersSeen(a, p) # {}}

\* The observations extract returned for an affix and a phase.
ObservationsOf(a, p) ==
    SelectSeq(returned[1], LAMBDA ew : ew.affix_id = a /\ ew.phase = p)

\* C14: extract emits one observation per resolvable non-threshold affix
\* and phase in which it appears, of weight min(100, midpoint of the
\* maximum tier x pattern multiplier) with midpoints 95/75/50/25,
\* multipliers 1.0 (all phases, aspirational only), 0.8 (starter only),
\* 0.85 (otherwise) and the category of the tier; threshold affixes and
\* unknown IDs yield nothing.
C14_PlannerExtraction ==
    call.op = "extract" =>
        \A a \in ExtractIds, p \in Phases :
            LET skipped == a \in loaded.threshold_ids \/ a \notin loaded.known_ids
                tier == CHOOSE t \in TiersSeen(a, p) : \A u \in TiersSeen(a, p) : u <= t
                midpoint == <<2500, 2500, 5000, 5000, 7500, 7500, 9500>>[tier]
                multiplier == IF PhasesSeen(a) = Phases THEN 100
                              ELSE IF PhasesSeen(a) = {"aspirational"} THEN 100
                              ELSE IF PhasesSeen(a) = {"starter"} THEN 80
                              ELSE 85
                category == IF tier >= 7 THEN "essential"
                            ELSE IF tier >= 5 THEN "strong"
                            ELSE IF tier >= 3 THEN "useful"
                            ELSE "filler"
            IN  IF skipped \/ TiersSeen(a, p) = {}
                THEN ObservationsOf(a, p) = <<>>
                ELSE /\ Len(ObservationsOf(a, p)) = 1
                     /\ ObservationsOf(a, p)[1].weight =
                            Min(10000, (midpoint * multiplier) \div 100)
                     /\ ObservationsOf(a, p)[1].category = category

\* A tier-7 affix in all three phases next to a skipped affix: weight 95,
\* essential, in every phase and nothing else.
C14_Witness ==
    /\ call.op = "extract"
    /\ PhasesSeen(1) = Phases
    /\ \A p \in Phases : TiersSeen(1, p) = {7}
    /\ PhasesSeen(2) # {}
    /\ Len(returned[1]) = 3
    /\ \A i \in 1..3 : returned[1][i].weight = 9500 /\ returned[1][i].category = "essential"

\* -------------------------------------------------------------------------
\* AffixRelationshipGraph.propagate_weights called on its own
\* (specification SpecPropagate)
\* -------------------------------------------------------------------------
MaxGraphEdges == 2     \* edges the graph is constructed from

PropagateIds == 1..3
PropagateWeightValues == {5000, 6000, 7000, 9500}

PropagateEdgePool ==
    { Edge(1, 2, "SYNERGY", 100, None),
      Edge(3, 2, "SYNERGY", 50, None),
      Edge(2, 4, "SYNERGY", 100, None),
      Edge(1, 4, "SYNERGY", -100, None),
      Edge(1, 3, "PREREQUISITE", 0, Some(<<"attack_type", "==", "melee">>)),
      Edge(1, 2, "PREREQUISITE", 0, Some(<<"uses_shield">>)),
      Edge(2, 3, "PREREQUISITE", 0,
           Some(<<"attack_type", "==", "bow", "||", "uses_shield", "==", "true">>)) }

\* The weights argument: a dict over some of the IDs, in ascending order.
PropagateWeightDicts ==
    { SelectSeq([i \in PropagateIds |-> [k |-> i, v |-> f[i]]], LAMBDA it : it.v >= 0) :
        f \in [PropagateIds -> PropagateWeightValues \cup {-1}] }

PropagateContexts ==
    { [x \in {} |-> <<>>],
      (<<"attack_type">> :> <<"bow">>),
      (<<"attack_type">> :> <<"melee">>) }

InitPropagate ==
    /\ NoRun
    /\ WriterIdle
    /\ loaded \in [edges : UNION {[1..n -> PropagateEdgePool] : n \in 0..MaxGraphEdges}]
    /\ call = NoCall
    /\ returned = None

\* One call of propagate_weights on the graph constructed from the
\* loaded edges.
PropagateCall ==
    /\ call = NoCall
    /\ \E weights \in PropagateWeightDicts, build_context \in PropagateContexts :
          /\ call' = [op |-> "propagate", weights |-> weights,
                      build_context |-> build_context]
          /\ returned' = Some(PropagateWeights(GraphFromEdges(loaded.edges), weights,
                                              build_context, synergy_trigger_weight,
                                              synergy_boost_per_strength))
    /\ UNCHANGED <<loaded, pipeVars, writeVars>>

NextPropagate == PropagateCall

SpecPropagate == InitPropagate /\ [][NextPropagate]_vars

\* The graph of the call, and its edges of one type.
CallGraph == GraphFromEdges(loaded.edges)
GraphEdges(type) == {e \in Range(CallGraph) : e.type = type}

\* The SYNERGY edges whose source affix is in the input above the trigger.
TriggeredEdges ==
    {e \in GraphEdges("SYNERGY") :
        /\ e.from \in DictKeys(call.weights)
        /\ DictGet(call.weights, e.from, 0) > synergy_trigger_weight}

\* The sum of the boosts of the triggered edges into an affix.
BoostInto(b) ==
    SumSeq([i \in 1..Len(CallGraph) |->
              IF CallGraph[i] \in TriggeredEdges /\ CallGraph[i].to = b
              THEN CallGraph[i].strength * synergy_boost_per_strength ELSE 0])

\* An outgoing PREREQUISITE edge of the affix fails against the context.
PrerequisiteFails(a) ==
    \E e \in GraphEdges("PREREQUISITE") :
        e.from = a /\ ~EvaluateCondition(e.condition, call.build_context)

SynergyStrengthsInUnit == \A e \in GraphEdges("SYNERGY") : e.strength \in 0..100

AfterSynergy ==
    SynergyPass(call.weights, call.weights, CallGraph,
                synergy_trigger_weight, synergy_boost_per_strength)

Unparseable(condition) ==
    condition # None /\ \A i \in 1..Len(condition[1]) : condition[1][i] # "=="

\* C16: an affix of the result is zeroed exactly when one of its outgoing
\* PREREQUISITE edges has a condition that is false in the build context,
\* and keeps its weight otherwise; an unparseable condition never zeroes;
\* attack_type == melee with attack_type = bow zeroes.
C16_PrerequisiteZeroing ==
    call.op = "propagate" =>
        /\ DictKeys(returned[1]) = DictKeys(AfterSynergy)
        /\ \A a \in DictKeys(returned[1]) :
              /\ DictGet(returned[1], a, 0) =
                    IF PrerequisiteFails(a) THEN 0 ELSE DictGet(AfterSynergy, a, 0)
              /\ (\A e \in GraphEdges("PREREQUISITE") :
                      e.from = a => Unparseable(e.condition))
                    => DictGet(returned[1], a, 0) = DictGet(AfterSynergy, a, 0)
              /\ (/\ Edge(a, 3, "PREREQUISITE", 0, Some(<<"attack_type", "==", "melee">>))
                        \in GraphEdges("PREREQUISITE")
                  /\ call.build_context = (<<"attack_type">> :> <<"bow">>))
                    => DictGet(returned[1], a, 0) = 0

\* Affix 1 of weight 95 is zeroed by attack_type == melee under
\* attack_type = bow, although its other prerequisite is unparseable.
C16_Witness ==
    /\ call.op = "propagate"
    /\ call.build_context = (<<"attack_type">> :> <<"bow">>)
    /\ GraphEdges("PREREQUISITE") =
          { Edge(1, 3, "PREREQUISITE", 0, Some(<<"attack_type", "==", "melee">>)),
            Edge(1, 2, "PREREQUISITE", 0, Some(<<"uses_shield">>)) }
    /\ DictGet(call.weights, 1, 0) = 9500
    /\ DictGet(returned[1], 1, 1) = 0

\* -------------------------------------------------------------------------
\* Properties of InheritanceResolver.resolve (specification SpecResolve):
\* the layers
\* -------------------------------------------------------------------------
\* The merges of the call, in order.
CallMerges ==
    ResolveLayers(CallResolver, call.mastery, call.damage_type, call.consensus).merges

\* The running map a merge started from is kept or raised, entry by entry.
NeverLowers(m) ==
    \A k \in DictKeys(m.before) :
        /\ k \in DictKeys(m.after)
        /\ DictGet(m.after, k, 0) >= DictGet(m.before, k, 0)

\* The running map after a merge holds at least what the layer assigns.
CoversLayer(m) ==
    \A k \in DictKeys(m.resolved) :
        /\ k \in DictKeys(m.after)
        /\ DictGet(m.after, k, 0) >= DictGet(m.resolved, k, 0)

\* C17: after each layer is merged, every affix's weight in the running
\* map is at least its weight before the layer and at least the weight
\* the layer assigns; each layer starts from the map the previous one
\* left, so no entry of a lower layer is lowered or removed.
C17_LayersMergeByMax ==
    call.op = "resolve" =>
        LET layers == ResolveLayers(CallResolver, call.mastery, call.damage_type,
                                    call.consensus)
            merges == layers.merges
        IN  /\ \A i \in 1..Len(merges) :
                  /\ NeverLowers(merges[i])
                  /\ CoversLayer(merges[i])
                  /\ merges[i].before = IF i = 1 THEN layers.baseline
                                        ELSE merges[i - 1].after
            /\ layers.weights = IF merges = <<>> THEN layers.baseline
                                ELSE merges[Len(merges)].after

\* All four layers above the baseline merge, and the build override
\* assigns an affix less than the lower layers gave it.
C17_Witness ==
    /\ call.op = "resolve"
    /\ Len(CallMerges) = 4
    /\ CallMerges[4].layer = "specific"
    /\ \E k \in DictKeys(CallMerges[4].resolved) :
          /\ k \in DictKeys(CallMerges[4].before)
          /\ DictGet(CallMerges[4].resolved, k, 0) < DictGet(CallMerges[4].before, k, 0)
          /\ DictGet(CallMerges[4].after, k, 0) = DictGet(CallMerges[4].before, k, 0)

\* C18: the confidence label is "low" when source_count = 0, "high" when
\* the specific layer was reached and source_count >= 3, otherwise
\* "medium" when source_count >= 2, otherwise "low".
C18_ConfidenceLabel ==
    call.op = "resolve" =>
        LET specific == returned[1].data_source_layer = "specific"
            n == call.source_count
        IN  /\ specific <=> returned[1].specificity_score = LAYER_SPECIFICITY["specific"]
            /\ returned[1].confidence =
                  IF n = 0 THEN "low"
                  ELSE IF specific /\ n >= 3 THEN "high"
                  ELSE IF n >= 2 THEN "medium"
                  ELSE "low"

\* One source, the specific layer reached (specificity 1.0): "low".
C18_Witness ==
    /\ call.op = "resolve"
    /\ call.source_count = 1
    /\ returned[1].specificity_score = 10000
    /\ returned[1].confidence = "low"

\* -------------------------------------------------------------------------
\* pipeline.py: _build_slug_from_path and _discover_sources on file names
\* (specification SpecDiscover)
\* -------------------------------------------------------------------------
\* A file stem is the sequence of its pieces: "x_very_strict" is
\* <<"x", "_very", "_strict">>.  The runs of SpecDiscover are runs of
\* separate processes over the same two directories.
MaxFilterFiles == 2    \* files in the filters directory
MaxRuns == 2           \* runs over the same directories

STRICTNESS_SUFFIXES ==
    { <<"_regular">>, <<"_strict">>, <<"_very", "_strict">>, <<"_uber", "_strict">>,
      <<"_giga", "_strict">>, <<"_normal">>, <<"_relaxed">> }

\* The suffixes that can match a stem together with another suffix.
OverlappingSuffixes == {x \in STRICTNESS_SUFFIXES : x[Len(x)] = "_strict"}

\* The iteration orders of the set STRICTNESS_SUFFIXES.  The order of a
\* set of strings is fixed within a process and depends on the string
\* hashes of the process.  The three suffixes that never match together
\* with another are put first: their position does not change any result.
SuffixOrders ==
    { <<<<"_regular">>, <<"_normal">>, <<"_relaxed">>>> \o o :
        o \in {q \in [1..4 -> OverlappingSuffixes] :
                  \A i, j \in 1..4 : i # j => q[i] # q[j]} }

EndsWith(stem, suffix) ==
    /\ Len(stem) >= Len(suffix)
    /\ SubSeq(stem, Len(stem) - Len(suffix) + 1, Len(stem)) = suffix

Path(stem, ext) == [stem |-> stem, ext |-> ext]

\* _build_slug_from_path, with the iteration order of the suffix set.
BuildSlugFromPath(path, order) ==
    LET stem == path.stem
        matching == SelectSeq(order, LAMBDA suffix : EndsWith(stem, suffix))
    IN  IF path.ext = "xml" /\ matching # <<>>
        THEN SubSeq(stem, 1, Len(stem) - Len(matching[1]))
        ELSE stem

\* _discover_sources, second loop: the filter files, in listing order.
RECURSIVE AttachFilters(_, _, _)
AttachFilters(build_sources_, filters, order) ==
    IF filters = <<>> THEN build_sources_
    ELSE LET path == Head(filters)
             slug == BuildSlugFromPath(path, order)
             next == IF slug \in DictKeys(build_sources_)
                     THEN DictSet(build_sources_, slug,
                                  Append(DictGet(build_sources_, slug, <<>>), path))
                     ELSE build_sources_
         IN  AttachFilters(next, Tail(filters), order)

\* _discover_sources on the sorted listings of non-empty data files of
\* the two directories.
DiscoverSourcesInDirs(planners, filters, order) ==
    AttachFilters([i \in 1..Len(planners) |->
                     [k |-> BuildSlugFromPath(planners[i], order), v |-> <<planners[i]>>]],
                  filters, order)

\* The files the directories may hold, in sorted order of their names.
PlannerFiles == << Path(<<"x">>, "json"), Path(<<"x", "_very">>, "json") >>
FilterFiles ==
    << Path(<<"x", "_strict">>, "xml"), Path(<<"x", "_uber", "_strict">>, "xml"),
       Path(<<"x", "_very">>, "xml"), Path(<<"x", "_very", "_strict">>, "xml"),
       Path(<<"y", "_relaxed">>, "xml") >>

\* sorted(dir.iterdir()) of a directory holding the files of the indices.
Listing(files, indices) ==
    LET sorted == SortedSeq(indices) IN [i \in 1..Len(sorted) |-> files[sorted[i]]]

InitDiscover ==
    /\ NoRun
    /\ WriterIdle
    /\ \E ps \in SUBSET (1..Len(PlannerFiles)),
          fs_ \in {x \in SUBSET (1..Len(FilterFiles)) : Cardinality(x) <= MaxFilterFiles} :
          loaded = [planners |-> Listing(PlannerFiles, ps),
                    filters |-> Listing(FilterFiles, fs_)]
    /\ call = NoCall
    /\ returned = <<>>

\* One more run of _discover_sources over the same directories, in a
\* process of its own.
DiscoverRun ==
    /\ Len(returned) < MaxRuns
    /\ \E order \in SuffixOrders :
          /\ call' = [op |-> "discover", order |-> order]
          /\ returned' = Append(returned,
                                DiscoverSourcesInDirs(loaded.planners, loaded.filters, order))
    /\ UNCHANGED <<loaded, pipeVars, writeVars>>

NextDiscover == DiscoverRun

SpecDiscover == InitDiscover /\ [][NextDiscover]_vars

\* C19: two runs over the same unchanged directories group the source
\* files into the same builds, in the same order.
C19_Deterministic ==
    \A i, j \in 1..Len(returned) : returned[i] = returned[j]

\* The longest known suffix a stem ends with, if any.
WholeSuffix(stem) ==
    LET matching == {x \in STRICTNESS_SUFFIXES : EndsWith(stem, x)}
    IN  IF matching = {} THEN <<>>
        ELSE CHOOSE x \in matching : \A y \in matching : Len(y) <= Len(x)

\* The build a filter file belongs to: its stem without the whole suffix.
StatedSlug(path) ==
    SubSeq(path.stem, 1, Len(path.stem) - Len(WholeSuffix(path.stem)))

\* C20: every filter file is attached to the build of its stem without the
\* whole strictness suffix, if and only if a planner file of that build
\* was discovered, and to no other build; the builds are those of the
\* planner files.
C20_SuffixStripped ==
    call.op = "discover" =>
        LET result == returned[Len(returned)]
            planner_slugs == {loaded.planners[i].stem : i \in 1..Len(loaded.planners)}
        IN  /\ DictKeys(result) = planner_slugs
            /\ \A i \in 1..Len(loaded.filters), b \in DictKeys(result) :
                  LET path == loaded.filters[i] IN
                  path \in Range(DictGet(result, b, <<>>)) <=> b = StatedSlug(path)

\* -------------------------------------------------------------------------
\* Properties of ConsensusEngine.merge (specification SpecMerge): the
\* observations dropped
\* -------------------------------------------------------------------------
\* The outlier candidates of a group of three or more whose source quality
\* is below the supplementary threshold.
DroppedCandidates ==
    {i \in 1..Len(Observations) :
        /\ Len(Observations) >= 3
        /\ IsOutlier(Observations[i].weight, ObservedWeightSeq)
        /\ Observations[i].quality < supplementary_quality_threshold}

\* C21: source_count is the number of observations minus the number of
\* low-quality outlier candidates dropped, or the number of observations
\* when all of them would be dropped; it is never 0.
C21_OnlyLowQualityOutliersDropped ==
    call.op = "merge" =>
        LET n == Len(Observations)
            dropped == Cardinality(DroppedCandidates)
        IN  /\ returned[1][1].source_count = IF dropped = n THEN n ELSE n - dropped
            /\ returned[1][1].source_count > 0

\* -------------------------------------------------------------------------
\* Properties of InheritanceResolver.resolve (specification SpecResolve):
\* the output lists
\* -------------------------------------------------------------------------
\* The ConsensusWeights of a phase whose affix is not a threshold affix.
PhaseConsensus(p) ==
    SelectSeq(DictGet(call.consensus[1], p, <<>>),
              LAMBDA cw : cw.affix_id \notin loaded.constants.threshold_affix_ids)

\* The output entry that carries a ConsensusWeight.
EntryOf(cw) ==
    [id |-> cw.affix_id, weight |-> cw.weight, category |-> cw.category,
     min_tier |-> IF cw.min_tier \in {None, Some(0)} THEN 1 ELSE cw.min_tier[1],
     consensus_spread |-> cw.consensus_spread, confidence |-> cw.confidence]

Occurrences(seq, x) == Cardinality({i \in 1..Len(seq) : seq[i] = x})

\* C22: with consensus data, each phase list holds one entry per
\* ConsensusWeight of the phase outside the threshold affixes, carrying
\* its weight, category, spread and confidence (min_tier 1 by default), in
\* non-increasing weight order, and nothing from the inheritance map.
C22_ConsensusShapesOutput ==
    (call.op = "resolve" /\ Truthy(call.consensus)) =>
        \A p \in Phases :
            LET out == returned[1].phases[p]
                expected == [i \in 1..Len(PhaseConsensus(p)) |-> EntryOf(PhaseConsensus(p)[i])]
            IN  /\ Len(out) = Len(expected)
                /\ \A i \in 1..Len(expected) :
                      Occurrences(out, expected[i]) = Occurrences(expected, expected[i])
                /\ \A i \in 1..(Len(out) - 1) : out[i].weight >= out[i + 1].weight

\* Two consensus weights given in ascending order come out descending;
\* affix 2 is zeroed by a failing prerequisite in the propagated map and
\* keeps its consensus weight; an inherited-only affix is not listed.
C22_Witness ==
    /\ call.op = "resolve"
    /\ Truthy(call.consensus)
    /\ Len(returned[1].phases["starter"]) = 2
    /\ returned[1].phases["starter"][2].id = 2
    /\ returned[1].phases["starter"][2].weight = 4000
    /\ DictGet(CallPropagated, 2, 1) = 0
    /\ \E k \in DictKeys(CallPropagated) :
          /\ DictGet(CallPropagated, k, 0) > 0
          /\ \A i \in 1..2 : returned[1].phases["starter"][i].id # k

\* -------------------------------------------------------------------------
\* AffixRelationshipGraph.propagate_weights step by step (specification
\* SpecPasses)
\* -------------------------------------------------------------------------
\* The position of the call is held in the call record: the pass that is
\* running and the items its loop has still to visit; returned holds the
\* dict result as it stands.

\* The passes in the reverse order.
PassOrderReversed == <<"prerequisite", "synergy">>

\* propagate_weights: the two loops, in the order of the code.
PassOrder == <<"synergy", "prerequisite">>

\* What a loop iterates: weights.items() in pass 1, list(result.keys())
\* in pass 2.
PassItems(pass, weights, result) == IF pass = "synergy" THEN weights ELSE result

StepWeightDicts ==
    { SelectSeq([i \in PropagateIds |-> [k |-> i, v |-> f[i]]], LAMBDA it : it.v >= 0) :
        f \in [PropagateIds -> {-1, 5000, 7000}] }

StepContexts == { (<<"attack_type">> :> <<"bow">>), (<<"attack_type">> :> <<"melee">>) }

\* The call starts: result = dict(weights).
PropagateBegin ==
    /\ call = NoCall
    /\ \E weights \in StepWeightDicts, build_context \in StepContexts :
          call' = [op |-> "propagate_steps", weights |-> weights,
                   build_context |-> build_context, pass |-> PassOrder[1],
                   todo |-> PassItems(PassOrder[1], weights, weights)]
    /\ returned' = Some(call'.weights)
    /\ UNCHANGED <<loaded, pipeVars, writeVars>>

\* An iteration of pass 1 that tests the weight the affix has in result.
SynergyStepCascading ==
    /\ call.op = "propagate_steps"
    /\ call.pass = "synergy"
    /\ call.todo # <<>>
    /\ returned' = Some(SynergyPass(returned[1],
                                    <<[k |-> Head(call.todo).k,
                                       v |-> DictGet(returned[1], Head(call.todo).k, 0)]>>,
                                    GraphFromEdges(loaded.edges),
                                    synergy_trigger_weight, synergy_boost_per_strength))
    /\ call' = [call EXCEPT !.todo = Tail(@)]
    /\ UNCHANGED <<loaded, pipeVars, writeVars>>

\* One iteration of the loop of pass 1.
SynergyStep ==
    /\ call.op = "propagate_steps"
    /\ call.pass = "synergy"
    /\ call.todo # <<>>
    /\ returned' = Some(SynergyPass(returned[1], <<Head(call.todo)>>,
                                    GraphFromEdges(loaded.edges),
                                    synergy_trigger_weight, synergy_boost_per_strength))
    /\ call' = [call EXCEPT !.todo = Tail(@)]
    /\ UNCHANGED <<loaded, pipeVars, writeVars>>

\* One iteration of the loop of pass 2.
PrerequisiteStep ==
    /\ call.op = "propagate_steps"
    /\ call.pass = "prerequisite"
    /\ call.todo # <<>>
    /\ returned' = IF PrerequisiteUnmet(GraphFromEdges(loaded.edges), Head(call.todo).k,
                                        call.build_context)
                   THEN Some(DictSet(returned[1], Head(call.todo).k, 0))
                   ELSE returned
    /\ call' = [call EXCEPT !.todo = Tail(@)]
    /\ UNCHANGED <<loaded, pipeVars, writeVars>>

\* A loop ends: the next pass starts, or the call returns.
PassDone ==
    /\ call.op = "propagate_steps"
    /\ call.pass \in {PassOrder[1], PassOrder[2]}
    /\ call.todo = <<>>
    /\ call' = IF call.pass = PassOrder[1]
               THEN [call EXCEPT !.pass = PassOrder[2],
                                 !.todo = PassItems(PassOrder[2], call.weights, returned[1])]
               ELSE [call EXCEPT !.pass = "done"]
    /\ UNCHANGED <<returned, loaded, pipeVars, writeVars>>

NextPasses == PropagateBegin \/ SynergyStep \/ PrerequisiteStep \/ PassDone

SpecPasses == InitPropagate /\ [][NextPasses]_vars

\* The affixes of the result with a failing outgoing prerequisite.
FailingAffixes ==
    {k \in DictKeys(returned[1]) :
        PrerequisiteUnmet(GraphFromEdges(loaded.edges), k, call.build_context)}

\* When the call returns, every affix with a failing prerequisite is 0,
\* and the result is what propagate_weights computes.
ZeroedAtReturn ==
    (call.op = "propagate_steps" /\ call.pass = "done") =>
        /\ \A k \in FailingAffixes : DictGet(returned[1], k, 1) = 0
        /\ returned[1] = PropagateWeights(GraphFromEdges(loaded.edges), call.weights,
                                          call.build_context, synergy_trigger_weight,
                                          synergy_boost_per_strength)

\* Once the zeroing pass runs, no step raises a weight or adds an affix,
\* and the synergy pass does not run again.
NoBoostAfterZeroing ==
    (call.op = "propagate_steps" /\ call.pass = "prerequisite") =>
        /\ call'.pass # "synergy"
        /\ \A k \in DictKeys(returned'[1]) :
              /\ k \in DictKeys(returned[1])
              /\ DictGet(returned'[1], k, 0) <= DictGet(returned[1], k, 0)

\* C23: every SYNERGY boost is applied before any PREREQUISITE zeroing:
\* an affix with a failing outgoing prerequisite ends the call at 0 even
\* if it was boosted in the call, and no boost follows a zeroing.
C23_SynergyBeforePrerequisite ==
    []ZeroedAtReturn /\ [][NoBoostAfterZeroing]_vars

\* The call has returned; affix 2 was boosted by affix 1 and zeroed by
\* its failing prerequisite.
C23_Witness ==
    /\ call.op = "propagate_steps"
    /\ call.pass = "done"
    /\ DictGet(call.weights, 1, 0) = 7000
    /\ DictGet(call.weights, 2, 0) = 5000
    /\ Edge(1, 2, "SYNERGY", 100, None) \in Range(GraphFromEdges(loaded.edges))
    /\ 2 \in FailingAffixes
    /\ DictGet(returned[1], 2, 1) = 0

\* -------------------------------------------------------------------------
\* Duplicate detection across the builds of a run
\* -------------------------------------------------------------------------
\* C24: a source whose checksum equals that of a source accepted
\* earlier in the run, in the same build or in an earlier one, is
\* rejected as a duplicate.
C24_DuplicatesAcrossBuilds ==
    \A i \in 1..Len(validated) : \A j \in (i + 1)..Len(validated) :
        (validated[i].result.accepted
         /\ validated[j].source.checksum = validated[i].source.checksum)
        => /\ ~validated[j].result.accepted
           /\ validated[j].result.reason.kind = "duplicate"

\* -------------------------------------------------------------------------
\* process_build as a function of one build's own source files
\* -------------------------------------------------------------------------
\* process_build, lines 191-199: the body of the ingest loop, r being
\* the outcome of _ingest_file on the k-th file.
IngestStep(st, slug, k, r) ==
    IF r.ok
    THEN [st EXCEPT !.raw = Append(@, r.raw[1])]
    ELSE [st EXCEPT !.rejected =
            Append(@, [source_id |-> <<slug, k>>, build |-> slug,
                       reason |-> Reason("ingestion_error", 0)])]

\* process_build, lines 189-199: the ingest loop over the files from
\* the k-th on.
RECURSIVE IngestLoop(_, _, _, _)
IngestLoop(slug, files, k, st) ==
    IF k > Len(files) THEN st
    ELSE IngestLoop(slug, files, k + 1,
                    IngestStep(st, slug, k, IngestFileResult(slug, k, files[k])))

\* process_build, lines 210-222: the body of the validation loop, v
\* being what validate returned for source.
ValidateStep(st, slug, source, v) ==
    IF v.accepted
    THEN [st EXCEPT !.accepted = Append(@, source),
                    !.scores = DictSet(@, source.source_id, v.quality[1].overall),
                    !.known = @ \cup {source.checksum}]
    ELSE [st EXCEPT !.rejected =
            Append(@, [source_id |-> source.source_id, build |-> slug,
                       reason |-> v.reason])]

\* process_build, lines 204-222: the validation loop, started with
\* empty accepted_sources, quality_scores and known_checksums.
RECURSIVE ValidateLoop(_, _, _)
ValidateLoop(slug, raws, st) ==
    IF raws = <<>> THEN st
    ELSE ValidateLoop(slug, Tail(raws),
            ValidateStep(st, slug, Head(raws),
                Validate(Head(raws),
                         AffixResolver(PipelineCatalog, PipelineConstants).known_ids,
                         st.known)))

\* process_build, lines 224-276, after the two loops.
ProcessBuildValidated(slug, ing, val) ==
    [rejected |-> ing.rejected \o val.rejected,
     accepted |-> Len(val.accepted),
     out |-> ProcessBuildTail(slug, ing.raw, val.accepted,
                              IF val.accepted = <<>> THEN <<>>
                              ELSE ProcessBuildConsensus(val.accepted, val.scores))]

ProcessBuildIngested(slug, ing) ==
    IF ing.raw = <<>>
    THEN [rejected |-> ing.rejected, accepted |-> 0, out |-> Raised("ValueError")]
    ELSE ProcessBuildValidated(slug, ing,
            ValidateLoop(slug, ing.raw,
                         [accepted |-> <<>>, scores |-> <<>>, known |-> {},
                          rejected |-> <<>>]))

\* process_build(build_slug, source_files, report) called with nothing
\* but the static data: what it appends to sources_rejected, how many
\* sources it accepts, and the profile it returns or the error it raises.
ProcessBuild(slug, source_files) ==
    ProcessBuildIngested(slug, IngestLoop(slug, source_files, 1,
                                          [raw |-> <<>>, rejected |-> <<>>]))

\* The builds process_build has returned from (or raised in).
FinishedBuilds ==
    {b \in DOMAIN build_sources :
        /\ \E a \in 1..Len(attempted) : attempted[a] = b
        /\ b # build_slug \/ pc \notin {"ingest", "validate"}}

\* The rejections recorded for build b in the report.
RejectedOf(b) == SelectSeq(report.sources_rejected, LAMBDA r : r.build = b)

\* The run recorded the outcome out of process_build for build b.
OutcomeRecorded(b, out) ==
    IF out.raised
    THEN /\ [build |-> b, reason |-> out.error] \in Range(report.builds_failed)
         /\ b \notin DOMAIN profiles
    ELSE /\ b \in DOMAIN profiles
         /\ profiles[b] = out.profile[1]
         /\ \A f \in Range(report.builds_failed) : f.build # b

\* C25: what a build produces (its profile or its failure, and its
\* rejected sources) is what process_build gives for that build's own
\* source files and the static data, whatever builds ran before it.
C25_BuildsDoNotInterfere ==
    \A b \in FinishedBuilds :
        /\ RejectedOf(b) = ProcessBuild(b, build_sources[b]).rejected
        /\ OutcomeRecorded(b, ProcessBuild(b, build_sources[b]).out)

\* Two builds have finished, the first with an ingested source, the
\* second with none: each failed in its own way.
C25_Witness ==
    /\ pc = "returned"
    /\ attempted = <<1, 2>>
    /\ report.builds_failed = <<[build |-> 1, reason |-> "AttributeError"],
                                [build |-> 2, reason |-> "ValueError"]>>

\* -------------------------------------------------------------------------
\* A source file whose ingestion raises
\* -------------------------------------------------------------------------
\* The files of build b whose ingestion raises, and those ingested.
RaisingFiles(b) ==
    {n \in 1..Len(build_sources[b]) : ~IngestFileResult(b, n, build_sources[b][n]).ok}

IngestedFiles(b) ==
    {n \in 1..Len(build_sources[b]) : IngestFileResult(b, n, build_sources[b][n]).ok}

\* The ingestion-error records of the k-th file of build b.
IngestionErrors(b, k) ==
    {i \in 1..Len(report.sources_rejected) :
        report.sources_rejected[i] =
            [source_id |-> <<b, k>>, build |-> b, reason |-> Reason("ingestion_error", 0)]}

\* The validate() calls made for build b.
CallsOf(b) == {i \in 1..Len(validated) : validated[i].build = b}

\* C26: a file whose ingestion raises is skipped and recorded once in
\* sources_rejected as an ingestion error; the other files of the build
\* are ingested and validated, and the build fails only if none of its
\* files could be ingested.
C26_IngestErrorSkipsOneFile ==
    \A slug \in FinishedBuilds :
        /\ \A f \in RaisingFiles(slug) : Cardinality(IngestionErrors(slug, f)) = 1
        /\ \A f \in IngestedFiles(slug) : IngestionErrors(slug, f) = {}
        /\ Cardinality(CallsOf(slug)) = Cardinality(IngestedFiles(slug))
        /\ (\E e \in Range(report.builds_failed) : e.build = slug)
              => IngestedFiles(slug) = {}

\* -------------------------------------------------------------------------
\* The quality score of an accepted source
\* -------------------------------------------------------------------------
\* A filter source as FilterIngester builds it: every phase holds the
\* same strictness data.
UniformPhases(source) ==
    \A p, q \in Phases : source.phases[p] = source.phases[q]

BoostsFromInputOnly ==
    (call.op = "propagate_steps" /\ call.pass = "synergy") =>
        \A c \in DictKeys(returned'[1]) :
            DictGet(returned'[1], c, -1) # DictGet(returned[1], c, -1)
            => /\ call.todo # <<>>
               /\ DictGet(call.weights, Head(call.todo).k, 0) > synergy_trigger_weight
               /\ \E e \in Range(GraphFromEdges(loaded.edges)) :
                     /\ e.type = "SYNERGY"
                     /\ e.from = Head(call.todo).k
                     /\ e.to = c

\* C28: synergy boosts are decided from the input weights: an affix
\* lifted above the trigger by a boost of this call boosts nothing, so
\* a chain propagates one hop per call.
C28_NoCascading ==
    [][BoostsFromInputOnly]_vars

\* Pass 1 has ended on the chain 1 -> 2 -> 4: affix 2 was lifted above
\* the trigger by affix 1 and affix 4 received nothing.
C28_Witness ==
    /\ call.op = "propagate_steps"
    /\ call.pass = "prerequisite"
    /\ Range(GraphFromEdges(loaded.edges))
         = {Edge(1, 2, "SYNERGY", 100, None), Edge(2, 4, "SYNERGY", 100, None)}
    /\ DictGet(call.weights, 1, 0) > synergy_trigger_weight
    /\ DictGet(call.weights, 2, 0) = 5000
    /\ DictGet(returned[1], 2, 0) > synergy_trigger_weight
    /\ 4 \notin DictKeys(returned[1])

\* -------------------------------------------------------------------------
\* The accounting of the report at the end of a run
\* -------------------------------------------------------------------------
\* The records of sources_rejected for the k-th file of build b, and the
\* validate() calls that accepted it.
RejectionsOf(b, k) ==
    {i \in 1..Len(report.sources_rejected) :
        /\ report.sources_rejected[i].build = b
        /\ report.sources_rejected[i].source_id = <<b, k>>}

AcceptancesOf(b, k) ==
    {i \in 1..Len(validated) :
        /\ validated[i].build = b
        /\ validated[i].source.source_id = <<b, k>>
        /\ validated[i].result.accepted}

AcceptedCalls == {i \in 1..Len(validated) : validated[i].result.accepted}

\* C29: when run returns, builds_processed + |builds_failed| is the number
\* of builds attempted, the stored profiles are as many as the builds
\* counted as processed and none belongs to a failed build, and every
\* source file of an attempted build is counted once: in sources_accepted
\* or in sources_rejected.
C29_ReportAccounting ==
    pc = "returned" =>
        /\ report.builds_processed + Len(report.builds_failed) = Len(attempted)
        /\ Cardinality(DOMAIN profiles) = report.builds_processed
        /\ DOMAIN profiles \subseteq {attempted[a] : a \in 1..Len(attempted)}
        /\ \A e \in 1..Len(report.builds_failed) :
              report.builds_failed[e].build \notin DOMAIN profiles
        /\ report.sources_accepted = Cardinality(AcceptedCalls)
        /\ \A a \in 1..Len(attempted) : \A f \in 1..Len(build_sources[attempted[a]]) :
              Cardinality(RejectionsOf(attempted[a], f))
                + Cardinality(AcceptancesOf(attempted[a], f)) = 1

\* A run of two builds has returned: a source was accepted, others were
\* rejected, and both builds are accounted for.
C29_Witness ==
    /\ pc = "returned"
    /\ Len(attempted) = 2
    /\ report.sources_accepted >= 1
    /\ Len(report.sources_rejected) >= 3
    /\ \E r \in 1..Len(report.sources_rejected) :
          report.sources_rejected[r].reason.kind # "ingestion_error"

\* -------------------------------------------------------------------------
\* data_source_layer and specificity_score of a profile
\* -------------------------------------------------------------------------
\* The order of the layers, and the specificity stated for each.
LayerRank ==
    [baseline |-> 0, damage_type |-> 1, class |-> 2, mastery |-> 3, specific |-> 4]

StatedSpecificity(layer) ==
    CASE layer = "baseline" -> 0
      [] layer = "damage_type" -> 2000
      [] layer = "class" -> 4000
      [] layer = "mastery" -> 7000
      [] layer = "specific" -> 10000

\* The layers that applied in the call: the baseline and every layer
\* that was merged.
AppliedLayers == {"baseline"} \cup {CallMerges[m].layer : m \in 1..Len(CallMerges)}

\* At least one consensus weight was supplied to the call.
SuppliedWeights ==
    /\ Truthy(call.consensus)
    /\ \E d \in 1..Len(call.consensus[1]) : call.consensus[1][d].v # <<>>

HighestOf(layer, applied) ==
    /\ layer \in applied
    /\ \A l \in applied : LayerRank[l] <= LayerRank[layer]

\* C30: specificity_score is the value fixed for data_source_layer,
\* data_source_layer is the highest layer that applied, and it is
\* "specific" exactly when at least one consensus weight was supplied.
C30_LayerAndSpecificity ==
    call.op = "resolve" =>
        /\ returned[1].specificity_score = StatedSpecificity(returned[1].data_source_layer)
        /\ HighestOf(returned[1].data_source_layer, AppliedLayers)
        /\ returned[1].data_source_layer = "specific" <=> SuppliedWeights

\* A call with a consensus dict that holds no weight: several layers
\* applied and the profile rests on the highest of them, not on
\* "specific".
C30_Witness ==
    /\ call.op = "resolve"
    /\ Truthy(call.consensus)
    /\ ~SuppliedWeights
    /\ Cardinality(AppliedLayers) >= 3
    /\ returned[1].data_source_layer = "mastery"
    /\ returned[1].specificity_score = 7000
====
